---- MODULE Spec2Model ----
(***************************************************************************)
(* A model of the SSH session manager (coding/ssh/session.rs) and of the   *)
(* file synchronisation layer built on it (coding/ssh/sync.rs).            *)
(*                                                                         *)
(* Text is modelled as a sequence of tokens.  A token is a string that the *)
(* code never looks inside: " " is a whitespace character, "/" and "~" are *)
(* themselves, "$HOME" is the five-character substring $HOME, and any      *)
(* other token is an opaque run of ordinary characters.  Concatenation of  *)
(* texts is \o, so format!() is a concatenation of token sequences.        *)
(*                                                                         *)
(* The external programs (ssh, sshpass, scp) are not part of the           *)
(* repository: every subprocess run is recorded in call.cmds together with *)
(* an outcome chosen nondeterministically among the three the code tells   *)
(* apart: the process ran and exited 0 ("ok"), ran and exited non-zero     *)
(* ("exit", with its stderr text), or could not be launched ("nolaunch",   *)
(* with the io error text).                                                *)
(***************************************************************************)
EXTENDS Naturals, Sequences, FiniteSets, TLC

VARIABLES
    live,      \* the SshSession object exists (between new and drop)
    conn,      \* SshSession.conn: <<>> is None, <<d>> is Some(d)
    status,    \* SshSession.status
    syncing,   \* SshSession.syncing (AtomicBool)
    holders,   \* callers whose last try_acquire_sync_lock returned true and who have not released since
    misuse,    \* some caller has released the lock without holding it
    call,      \* the last operation: its name, argument, result, the subprocesses it ran, the state before it
    remote,    \* the observed part of the remote file system: path -> entry
    written,   \* <<[path, content]>> after a successful write_remote_file, until the remote is next written to
    keys,      \* the key files under <app_data_dir>/.ssh: the trimmed contents they were made from
    db         \* the database directory, the export file and the position of safe_compact

vars == <<live, conn, status, syncing, holders, misuse, call, remote, written, keys, db>>

(***************************************************************************)
(* Bounds                                                                  *)
(***************************************************************************)
\* callers competing for the sync lock
NumCallers == 2

\* longest remote path, in tokens
MaxPathLen == 2

\* longest list of mappings handed to sync_mappings
MaxMappings == 2

Callers == 1..NumCallers

(***************************************************************************)
(* Text helpers                                                            *)
(***************************************************************************)
IsSpace(t) == t \in {" ", "\n"}

RECURSIVE TrimStart(_)
TrimStart(s) == IF s # <<>> /\ IsSpace(Head(s)) THEN TrimStart(Tail(s)) ELSE s

RECURSIVE TrimEnd(_)
TrimEnd(s) ==
    IF s # <<>> /\ IsSpace(s[Len(s)]) THEN TrimEnd(SubSeq(s, 1, Len(s) - 1)) ELSE s

\* str::trim
Trim(s) == TrimEnd(TrimStart(s))

\* str::replace(from, to) for a one-token pattern
RECURSIVE Replace(_, _, _)
Replace(s, from, to) ==
    IF s = <<>> THEN <<>>
    ELSE (IF Head(s) = from THEN to ELSE <<Head(s)>>) \o Replace(Tail(s), from, to)

\* all texts of at most n tokens over the alphabet
RECURSIVE TextsUpTo(_, _)
TextsUpTo(alphabet, n) ==
    IF n = 0 THEN {<<>>}
    ELSE LET shorter == TextsUpTo(alphabet, n - 1)
         IN shorter \cup {Append(t, a) : t \in shorter, a \in alphabet}

\* a list of plain arguments, each a one-token text
Args(seq) == [i \in DOMAIN seq |-> <<seq[i]>>]

(***************************************************************************)
(* SessionStatus                                                           *)
(***************************************************************************)
Disconnected == [kind |-> "Disconnected", reason |-> <<>>]
Connecting == [kind |-> "Connecting", reason |-> <<>>]
Connected == [kind |-> "Connected", reason |-> <<>>]
Failed(err) == [kind |-> "Failed", reason |-> err]

(***************************************************************************)
(* SSHConnection descriptors used as inputs                                *)
(***************************************************************************)
PasswordConn ==
    [id |-> "a", host |-> "h", port |-> 22, username |-> "u",
     auth_method |-> "password", password |-> "pw",
     private_key_path |-> <<>>, private_key_content |-> <<>>, passphrase |-> ""]

\* the same id as PasswordConn, edited to another host and port
EditedConn == [PasswordConn EXCEPT !.host = "h2", !.port = 2222]

KeyConn ==
    [id |-> "b", host |-> "g", port |-> 2200, username |-> "v",
     auth_method |-> "key", password |-> "",
     private_key_path |-> <<"/", "k">>, private_key_content |-> <<>>, passphrase |-> ""]

Descriptors == {PasswordConn, EditedConn, KeyConn}

(***************************************************************************)
(* Subprocess outcomes                                                     *)
(***************************************************************************)
StdErrs == {<<" ", "denied", " ">>}

IoErrs == {<<"No such file or directory">>}

OutOk == [k |-> "ok", text |-> <<>>]

Outcomes ==
    {OutOk} \cup {[k |-> "exit", text |-> e] : e \in StdErrs}
            \cup {[k |-> "nolaunch", text |-> e] : e \in IoErrs}

Ok(v) == [ok |-> TRUE, val |-> v]
Err(e) == [ok |-> FALSE, val |-> e]

Ran(kind, cmd, out) == [kind |-> kind, cmd |-> cmd, out |-> out]

(***************************************************************************)
(* SshSession                                                              *)
(***************************************************************************)
\* control_path as built by new(): the address of the multiplexed channel
ControlPath == "/tmp/ai-toolbox-ssh-ctrl-%C"

AppDataDir == <<"/", "appdata">>

\* "{}@{}"
Target(c) == c.username \o "@" \o c.host

\* key_file::is_private_key_content
IsPrivateKeyContent(value) ==
    LET trimmed == Trim(value) IN trimmed # <<>> /\ Head(trimmed) = "-----BEGIN"

\* a digest of the content as it was given
Md5Hex_Untrimmed(content) == <<"md5(">> \o content \o <<")">>

\* key_file::md5_hex: the digest of the trimmed content, kept symbolic (no collisions)
Md5Hex(content) == <<"md5(">> \o Trim(content) \o <<")">>

\* <app_data_dir>/.ssh/<md5_hex>
KeyFilePath(content) == AppDataDir \o <<"/", ".ssh", "/">> \o Md5Hex(content)

\* fs::write(&file_path, content.trim())
WriteKeyFile(content, out) ==
    Ran("write", [prog |-> "fs::write", env |-> <<>>,
                  args |-> <<KeyFilePath(content), Trim(content)>>], out)

\* ensure_key_file(): the possible [ret, keys, cmds].  The directory is there
\* when a file is; a write that failed may have created the file
EnsureKeyFileBody(content, ks) ==
    IF Trim(content) \in ks
    THEN {[ret |-> Ok(KeyFilePath(content)), keys |-> ks, cmds |-> <<>>]}
    ELSE {[ret |-> Ok(KeyFilePath(content)), keys |-> ks \cup {Trim(content)},
           cmds |-> <<WriteKeyFile(content, OutOk)>>]}
         \cup {[ret |-> Err(<<"Failed to write key file: ">> \o e), keys |-> after,
                 cmds |-> <<WriteKeyFile(content, [k |-> "nolaunch", text |-> e])>>] :
                  e \in IoErrs, after \in {ks, ks \cup {Trim(content)}}}
         \cup (IF ks = {}
               THEN {[ret |-> Err(<<"Failed to create .ssh directory: ">> \o e), keys |-> ks,
                      cmds |-> <<>>] : e \in IoErrs}
               ELSE {})

\* remove_key_file(): the possible key files afterwards; the result of
\* fs::remove_file is not looked at
RemoveKeyFileBody(content, ks) ==
    IF Trim(content) = <<>> THEN {ks}
    ELSE IF Trim(content) \in ks THEN {ks \ {Trim(content)}, ks}
         ELSE {ks}

\* a resolve_key_path that prefers the path the user supplied
ResolveKeyPathBody_PathFirst(path, content, ks) ==
    IF path # <<>> THEN {[ret |-> Ok(path), keys |-> ks, cmds |-> <<>>]}
    ELSE EnsureKeyFileBody(content, ks)

\* resolve_key_path(): the possible [ret, keys, cmds]
ResolveKeyPathBody(path, content, ks) ==
    IF Trim(content) # <<>> /\ IsPrivateKeyContent(content)
    THEN EnsureKeyFileBody(content, ks)
    ELSE {[ret |-> Ok(path), keys |-> ks, cmds |-> <<>>]}

\* key_file::resolve_key_path followed by unwrap_or_default; keyOk is whether
\* ensure_key_file could create the directory and write the file
ResolveKeyPath(path, content, keyOk) ==
    IF Trim(content) # <<>> /\ IsPrivateKeyContent(content)
    THEN IF keyOk THEN KeyFilePath(content) ELSE <<>>
    ELSE path

\* base arguments that force batch mode for every key login
AddSshBaseArgs_AlwaysBatchMode(c, keyOk) ==
    Args(<<"-p", ToString(c.port)>>)
    \o Args(<<"-o", "StrictHostKeyChecking=accept-new">>)
    \o Args(<<"-o", "ConnectTimeout=10">>)
    \o (IF c.auth_method = "key"
        THEN LET key_path == ResolveKeyPath(c.private_key_path, c.private_key_content, keyOk)
             IN (IF key_path # <<>> THEN <<<<"-i">>, key_path>> ELSE <<>>)
                \o Args(<<"-o", "BatchMode=yes">>)
        ELSE <<>>)

AddSshBaseArgs(c, keyOk) ==
    Args(<<"-p", ToString(c.port)>>)
    \o Args(<<"-o", "StrictHostKeyChecking=accept-new">>)
    \o Args(<<"-o", "ConnectTimeout=10">>)
    \o (IF c.auth_method = "key"
        THEN LET key_path == ResolveKeyPath(c.private_key_path, c.private_key_content, keyOk)
             IN IF key_path # <<>>
                THEN <<<<"-i">>, key_path>>
                     \o (IF c.passphrase = "" THEN Args(<<"-o", "BatchMode=yes">>) ELSE <<>>)
                ELSE <<>>
        ELSE <<>>)

\* a base command that hands the password to sshpass on the command line
BuildBaseSshCommand_PasswordOnCommandLine(c, keyOk) ==
    IF c.auth_method = "password" /\ c.password # ""
    THEN [prog |-> "sshpass", env |-> <<>>,
          args |-> Args(<<"-p", c.password, "ssh">>) \o AddSshBaseArgs(c, keyOk)]
    ELSE [prog |-> "ssh", env |-> <<>>, args |-> AddSshBaseArgs(c, keyOk)]

BuildBaseSshCommand(c, keyOk) ==
    IF c.auth_method = "password" /\ c.password # ""
    THEN [prog |-> "sshpass", env |-> <<<<"SSHPASS", c.password>>>>,
          args |-> Args(<<"-e", "ssh">>) \o AddSshBaseArgs(c, keyOk)]
    ELSE [prog |-> "ssh", env |-> <<>>, args |-> AddSshBaseArgs(c, keyOk)]

\* the command connect() runs to start the ControlMaster
MasterCommand(c, keyOk) ==
    LET base == BuildBaseSshCommand(c, keyOk)
    IN [base EXCEPT !.args = @ \o Args(<<"-M", "-S", ControlPath,
                                        "-o", "ControlPersist=yes",
                                        "-o", "ServerAliveInterval=30",
                                        "-o", "ServerAliveCountMax=3",
                                        "-N", "-f", Target(c)>>)]

\* the command is_alive() runs
CheckCommand(c) ==
    [prog |-> "ssh", env |-> <<>>,
     args |-> Args(<<"-S", ControlPath, "-O", "check", "-p", ToString(c.port), Target(c)>>)]

\* the command disconnect() runs
ExitCommand(c) ==
    [prog |-> "ssh", env |-> <<>>,
     args |-> Args(<<"-S", ControlPath, "-O", "exit", "-p", ToString(c.port), Target(c)>>)]

\* an is_alive that takes a probe it could not launch for a live channel
IsAliveBody_LaunchFailureIsAlive(cn) ==
    IF cn = <<>>
    THEN {[ret |-> FALSE, cmds |-> <<>>]}
    ELSE {[ret |-> (probe.k # "exit"), cmds |-> <<Ran("check", CheckCommand(cn[1]), probe)>>] :
            probe \in Outcomes}

\* is_alive(): the possible [ret, cmds]
IsAliveBody(cn) ==
    IF cn = <<>>
    THEN {[ret |-> FALSE, cmds |-> <<>>]}
    ELSE {[ret |-> (probe.k = "ok"), cmds |-> <<Ran("check", CheckCommand(cn[1]), probe)>>] :
            probe \in Outcomes}

\* a disconnect that forgets the descriptor only when the close operation succeeded
DisconnectBody_KeepOnFailure(cn) ==
    IF cn # <<>>
    THEN {[conn |-> IF close.k = "ok" THEN <<>> ELSE cn,
           status |-> Disconnected,
           cmds |-> <<Ran("exit", ExitCommand(cn[1]), close)>>] : close \in Outcomes}
    ELSE {[conn |-> <<>>, status |-> Disconnected, cmds |-> <<>>]}

\* disconnect(): the possible [conn, status, cmds]
DisconnectBody(cn) ==
    IF cn # <<>>
    THEN {[conn |-> <<>>, status |-> Disconnected,
           cmds |-> <<Ran("exit", ExitCommand(cn[1]), close)>>] : close \in Outcomes}
    ELSE {[conn |-> <<>>, status |-> Disconnected, cmds |-> <<>>]}

\* what connect() leaves in status when the master process could not be launched
\* (the early return of the ? operator, taken after status was set to Connecting)
LaunchFailureStatus(err) == Connecting

\* resolve_key_path materialises a key file for this descriptor
Materialises(d) ==
    /\ d.auth_method = "key"
    /\ Trim(d.private_key_content) # <<>>
    /\ IsPrivateKeyContent(d.private_key_content)

\* the call of ensure_key_file made while the command for d is built: none, or
\* its content and whether it returned Ok
KeyFileOf(d, keyOk) ==
    IF Materialises(d) THEN <<[content |-> d.private_key_content, ok |-> keyOk]>>
    ELSE <<>>

\* the key files after the call of ensure_key_file made while the command is
\* built; none when the call cannot have had this result
KeyFilesAfter(ks, keyfile) ==
    IF keyfile = <<>> THEN {ks}
    ELSE {r.keys : r \in {x \in EnsureKeyFileBody(keyfile[1].content, ks) :
                              x.ret.ok = keyfile[1].ok}}

\* a spawn that remembers the descriptor only once the master is up
SpawnMaster_RememberOnSuccess(d, before, spawn, keyOk) ==
    LET cmds == before \o <<Ran("master", MasterCommand(d, keyOk), spawn)>>
    IN CASE spawn.k = "ok" ->
              [conn |-> <<d>>, status |-> Connected, ret |-> Ok(<<>>), cmds |-> cmds,
               steps |-> <<Connecting, Connected>>, keyfile |-> KeyFileOf(d, keyOk)]
         [] spawn.k = "exit" ->
              LET err == <<"SSH master connection failed: ">> \o Trim(spawn.text)
              IN [conn |-> <<>>, status |-> Failed(err), ret |-> Err(err), cmds |-> cmds,
                  steps |-> <<Connecting, Failed(err)>>, keyfile |-> KeyFileOf(d, keyOk)]
         [] spawn.k = "nolaunch" ->
              LET err == <<"starting SSH master connection failed: ">> \o spawn.text
              IN [conn |-> <<>>, status |-> LaunchFailureStatus(err), ret |-> Err(err),
                  cmds |-> cmds, steps |-> <<Connecting>>, keyfile |-> KeyFileOf(d, keyOk)]

\* the part of connect() after disconnect(): spawn the master and look at its
\* exit; steps are the values assigned to status, in order
SpawnMaster(d, before, spawn, keyOk) ==
    LET cmds == before \o <<Ran("master", MasterCommand(d, keyOk), spawn)>>
    IN CASE spawn.k = "ok" ->
              [conn |-> <<d>>, status |-> Connected, ret |-> Ok(<<>>), cmds |-> cmds,
               steps |-> <<Connecting, Connected>>, keyfile |-> KeyFileOf(d, keyOk)]
         [] spawn.k = "exit" ->
              LET err == <<"SSH master connection failed: ">> \o Trim(spawn.text)
              IN [conn |-> <<d>>, status |-> Failed(err), ret |-> Err(err), cmds |-> cmds,
                  steps |-> <<Connecting, Failed(err)>>, keyfile |-> KeyFileOf(d, keyOk)]
         [] spawn.k = "nolaunch" ->
              LET err == <<"starting SSH master connection failed: ">> \o spawn.text
              IN [conn |-> <<d>>, status |-> LaunchFailureStatus(err), ret |-> Err(err),
                  cmds |-> cmds, steps |-> <<Connecting>>, keyfile |-> KeyFileOf(d, keyOk)]

\* ensure_key_file can fail only when there is key content to materialise
KeyOutcomes(d) == IF Materialises(d) THEN BOOLEAN ELSE {TRUE}

\* a connect without the short cut for a live channel: it always tears down and respawns
ConnectBody_AlwaysRespawn(cn, d) ==
    LET sameId == cn # <<>> /\ cn[1].id = d.id
        probes == IF sameId THEN IsAliveBody(cn) ELSE {[ret |-> FALSE, cmds |-> <<>>]}
    IN UNION {
         UNION {
           {[r EXCEPT !.steps = <<dis.status>> \o @] :
               r \in {SpawnMaster(d, alive.cmds \o dis.cmds, spawn, keyOk) :
                        spawn \in Outcomes, keyOk \in KeyOutcomes(d)}} :
           dis \in DisconnectBody(cn)} :
         alive \in probes}

\* a connect that spawns the new multiplexer without closing the old one
ConnectBody_NoTeardown(cn, d) ==
    LET sameId == cn # <<>> /\ cn[1].id = d.id
        probes == IF sameId THEN IsAliveBody(cn) ELSE {[ret |-> FALSE, cmds |-> <<>>]}
    IN UNION {
         IF alive.ret
         THEN {[conn |-> cn, status |-> Connected, ret |-> Ok(<<>>), cmds |-> alive.cmds,
                steps |-> <<Connected>>, keyfile |-> <<>>]}
         ELSE {SpawnMaster(d, alive.cmds, spawn, keyOk) :
                 spawn \in Outcomes, keyOk \in KeyOutcomes(d)} :
         alive \in probes}

\* a connect that goes back to the descriptor it had when the new connection fails
ConnectBody_RestoreOnFailure(cn, d) ==
    LET sameId == cn # <<>> /\ cn[1].id = d.id
        probes == IF sameId THEN IsAliveBody(cn) ELSE {[ret |-> FALSE, cmds |-> <<>>]}
    IN UNION {
         IF alive.ret
         THEN {[conn |-> cn, status |-> Connected, ret |-> Ok(<<>>), cmds |-> alive.cmds,
                steps |-> <<Connected>>, keyfile |-> <<>>]}
         ELSE UNION {
                {[r EXCEPT !.steps = <<dis.status>> \o @,
                           !.conn = IF r.ret.ok THEN @ ELSE cn] :
                    r \in {SpawnMaster(d, alive.cmds \o dis.cmds, spawn, keyOk) :
                             spawn \in Outcomes, keyOk \in KeyOutcomes(d)}} :
                dis \in DisconnectBody(cn)} :
         alive \in probes}

\* connect(): the possible [conn, status, ret, cmds, steps, keyfile]
ConnectBody(cn, d) ==
    LET sameId == cn # <<>> /\ cn[1].id = d.id
        probes == IF sameId THEN IsAliveBody(cn) ELSE {[ret |-> FALSE, cmds |-> <<>>]}
    IN UNION {
         IF alive.ret
         THEN {[conn |-> cn, status |-> Connected, ret |-> Ok(<<>>), cmds |-> alive.cmds,
                steps |-> <<Connected>>, keyfile |-> <<>>]}
         ELSE UNION {
                {[r EXCEPT !.steps = <<dis.status>> \o @] :
                    r \in {SpawnMaster(d, alive.cmds \o dis.cmds, spawn, keyOk) :
                             spawn \in Outcomes, keyOk \in KeyOutcomes(d)}} :
                dis \in DisconnectBody(cn)} :
         alive \in probes}

\* an ensure_connected that reports success whatever the reconnect returned
EnsureConnectedBody_SwallowError(cn, st) ==
    UNION {
      IF alive.ret
      THEN {[conn |-> cn, status |-> Connected, ret |-> Ok(<<>>), cmds |-> alive.cmds,
             steps |-> <<Connected>>, keyfile |-> <<>>]}
      ELSE IF cn = <<>>
           THEN {[conn |-> cn, status |-> st, ret |-> Err(<<"no SSH connection configured">>),
                  cmds |-> alive.cmds, steps |-> <<>>, keyfile |-> <<>>]}
           ELSE {[r EXCEPT !.cmds = alive.cmds \o @, !.ret = Ok(<<>>)] :
                   r \in ConnectBody(cn, cn[1])} :
      alive \in IsAliveBody(cn)}

\* an ensure_connected that gives up on a dead channel instead of reconnecting
EnsureConnectedBody_NoReconnect(cn, st) ==
    UNION {
      IF alive.ret
      THEN {[conn |-> cn, status |-> Connected, ret |-> Ok(<<>>), cmds |-> alive.cmds,
             steps |-> <<Connected>>, keyfile |-> <<>>]}
      ELSE {[conn |-> cn, status |-> st, ret |-> Err(<<"no SSH connection configured">>),
             cmds |-> alive.cmds, steps |-> <<>>, keyfile |-> <<>>]} :
      alive \in IsAliveBody(cn)}

\* ensure_connected(): the possible [conn, status, ret, cmds, steps, keyfile]
EnsureConnectedBody(cn, st) ==
    UNION {
      IF alive.ret
      THEN {[conn |-> cn, status |-> Connected, ret |-> Ok(<<>>), cmds |-> alive.cmds,
             steps |-> <<Connected>>, keyfile |-> <<>>]}
      ELSE IF cn = <<>>
           THEN {[conn |-> cn, status |-> st, ret |-> Err(<<"no SSH connection configured">>),
                  cmds |-> alive.cmds, steps |-> <<>>, keyfile |-> <<>>]}
           ELSE {[r EXCEPT !.cmds = alive.cmds \o @] : r \in ConnectBody(cn, cn[1])} :
      alive \in IsAliveBody(cn)}

\* create_ssh_command()
CreateSshCommandBody(cn) ==
    IF cn = <<>>
    THEN Err(<<"SSH session not established">>)
    ELSE Ok([prog |-> "ssh", env |-> <<>>,
             args |-> Args(<<"-S", ControlPath, "-o", "ControlMaster=no",
                             "-p", ToString(cn[1].port), "-o", "ConnectTimeout=10",
                             "-o", "StrictHostKeyChecking=accept-new", Target(cn[1])>>)])

\* a create_scp_command that leaves scp free to become the multiplexer
CreateScpCommandBody_NoControlMasterOption(cn) ==
    IF cn = <<>>
    THEN Err(<<"SSH session not established">>)
    ELSE Ok([prog |-> "scp", env |-> <<>>,
             args |-> Args(<<"-o", "ControlPath=" \o ControlPath,
                             "-P", ToString(cn[1].port), "-o", "ConnectTimeout=10",
                             "-o", "StrictHostKeyChecking=accept-new">>)])

\* create_scp_command()
CreateScpCommandBody(cn) ==
    IF cn = <<>>
    THEN Err(<<"SSH session not established">>)
    ELSE Ok([prog |-> "scp", env |-> <<>>,
             args |-> Args(<<"-o", "ControlPath=" \o ControlPath, "-o", "ControlMaster=no",
                             "-P", ToString(cn[1].port), "-o", "ConnectTimeout=10",
                             "-o", "StrictHostKeyChecking=accept-new">>)])

\* target_str()
TargetStrBody(cn) ==
    IF cn = <<>> THEN Err(<<"SSH session not established">>) ELSE Ok(<<Target(cn[1])>>)

(***************************************************************************)
(* The database directory and safe_compact (db.rs)                         *)
(***************************************************************************)
\* the most versions of the data that are told apart
MaxData == 4

\* what a directory or a file holds: nothing (it does not exist), an empty
\* database, a part of version v, or all of version v
Missing == [t |-> "none", v |-> 0]
EmptyDb == [t |-> "empty", v |-> 0]
PartOf(v) == [t |-> "partial", v |-> v]
AllOf(v) == [t |-> "data", v |-> v]

\* the steps of safe_compact, in the order of the code
CompactSteps ==
    <<"export", "close", "remove_dir", "create_dir", "reopen", "use_ns", "import",
      "remove_file">>

\* pc is the step to run next ("idle" outside safe_compact, "returned" after
\* it), open is whether a connection to the database exists, did are the steps
\* of this call that succeeded, data is what the database held when the call
\* began
DbInit ==
    [pc |-> "idle", open |-> TRUE, dir |-> AllOf(1), file |-> Missing,
     did |-> <<>>, data |-> AllOf(1), ret |-> Ok(<<>>)]

\* a step that went well: the next step is due
Done(d, step, next) == [d EXCEPT !.pc = next, !.did = Append(@, step)]

\* an error that is swallowed when it comes from the export
Failing_ExportIgnored(d, step, err) ==
    IF step = "export"
    THEN [d EXCEPT !.pc = "close"]
    ELSE [d EXCEPT !.pc = "returned", !.open = FALSE, !.ret = Err(<<err>>)]

\* map_err(..)?: safe_compact returns the error; the connection it owns is dropped
Failing(d, step, err) == [d EXCEPT !.pc = "returned", !.open = FALSE, !.ret = Err(<<err>>)]

Pre == [conn |-> conn, status |-> status, syncing |-> syncing, remote |-> remote,
        keys |-> keys]

\* the record of an operation; trace is filled by sync_mappings (the result of
\* each mapping) and by connect and ensure_connected (the values assigned to
\* status, in order)
Call(op, arg, ret, cmds) ==
    [op |-> op, arg |-> arg, ret |-> ret, cmds |-> cmds, pre |-> Pre, trace |-> <<>>]

\* no operation has returned a result that is still to be looked at
Idle == [op |-> "idle", arg |-> <<>>, ret |-> Ok(<<>>), cmds |-> <<>>,
         pre |-> [conn |-> <<>>, status |-> Disconnected, syncing |-> FALSE, remote |-> <<>>,
                  keys |-> {}],
         trace |-> <<>>]

Init ==
    /\ live = TRUE
    /\ conn = <<>>
    /\ status = Disconnected
    /\ syncing = FALSE
    /\ holders = {}
    /\ misuse = FALSE
    /\ call = Idle
    /\ remote = <<>>
    /\ written = <<>>
    /\ keys = {}
    /\ db = DbInit

\* SshSession::new after the previous manager was destroyed
New ==
    /\ ~live
    /\ live' = TRUE
    /\ conn' = <<>>
    /\ status' = Disconnected
    /\ syncing' = FALSE
    /\ holders' = {}
    /\ misuse' = FALSE
    /\ call' = Idle
    /\ UNCHANGED <<db, keys, remote, written>>

Connect(d) ==
    /\ live
    /\ \E r \in ConnectBody(conn, d) :
            /\ keys' \in KeyFilesAfter(keys, r.keyfile)
            /\ conn' = r.conn
            /\ status' = r.status
            /\ call' = [Call("connect", <<d>>, r.ret, r.cmds) EXCEPT !.trace = r.steps]
    /\ UNCHANGED <<db, remote, written, live, syncing, holders, misuse>>

IsAlive ==
    /\ live
    /\ \E r \in IsAliveBody(conn) :
            call' = Call("is_alive", <<>>, Ok(r.ret), r.cmds)
    /\ UNCHANGED <<db, keys, remote, written, live, conn, status, syncing, holders, misuse>>

EnsureConnected ==
    /\ live
    /\ \E r \in EnsureConnectedBody(conn, status) :
            /\ keys' \in KeyFilesAfter(keys, r.keyfile)
            /\ conn' = r.conn
            /\ status' = r.status
            /\ call' = [Call("ensure_connected", <<>>, r.ret, r.cmds) EXCEPT !.trace = r.steps]
    /\ UNCHANGED <<db, remote, written, live, syncing, holders, misuse>>

Disconnect ==
    /\ live
    /\ \E r \in DisconnectBody(conn) :
            /\ conn' = r.conn
            /\ status' = r.status
            /\ call' = Call("disconnect", <<>>, Ok(<<>>), r.cmds)
    /\ UNCHANGED <<db, keys, remote, written, live, syncing, holders, misuse>>

\* impl Drop for SshSession
Drop ==
    /\ live
    /\ \E r \in DisconnectBody(conn) :
            /\ conn' = r.conn
            /\ status' = r.status
            /\ call' = Call("drop", <<>>, Ok(<<>>), r.cmds)
    /\ live' = FALSE
    /\ UNCHANGED <<db, keys, remote, written, syncing, holders, misuse>>

CreateSshCommand ==
    /\ live
    /\ call' = Call("create_ssh_command", <<>>, CreateSshCommandBody(conn), <<>>)
    /\ UNCHANGED <<db, keys, remote, written, live, conn, status, syncing, holders, misuse>>

CreateScpCommand ==
    /\ live
    /\ call' = Call("create_scp_command", <<>>, CreateScpCommandBody(conn), <<>>)
    /\ UNCHANGED <<db, keys, remote, written, live, conn, status, syncing, holders, misuse>>

TargetStr ==
    /\ live
    /\ call' = Call("target_str", <<>>, TargetStrBody(conn), <<>>)
    /\ UNCHANGED <<db, keys, remote, written, live, conn, status, syncing, holders, misuse>>

\* a test-then-set that is not atomic: every caller sees the flag clear
CompareExchange_AlwaysSucceeds(flag) == [flag |-> TRUE, ok |-> TRUE]

\* an exchange that only succeeds on a connected session
CompareExchange_NeedsConnection(flag) ==
    [flag |-> (flag \/ status = Connected), ok |-> (~flag /\ status = Connected)]

\* compare_exchange(false, true): the value stored and whether the exchange succeeded
CompareExchange(flag) == [flag |-> TRUE, ok |-> ~flag]

TryAcquireSyncLock(c) ==
    /\ live
    /\ LET r == CompareExchange(syncing)
       IN /\ syncing' = r.flag
          /\ holders' = IF r.ok THEN holders \cup {c} ELSE holders
          /\ call' = Call("try_acquire_sync_lock", <<c>>, Ok(r.ok), <<>>)
    /\ UNCHANGED <<db, keys, remote, written, live, conn, status, misuse>>

\* store(false)
StoreRelease(flag) == FALSE

ReleaseSyncLock(c) ==
    /\ live
    /\ syncing' = StoreRelease(syncing)
    /\ holders' = holders \ {c}
    /\ misuse' = (misuse \/ c \notin holders)
    /\ call' = Call("release_sync_lock", <<c>>, Ok(<<>>), <<>>)
    /\ UNCHANGED <<db, keys, remote, written, live, conn, status>>

\* the application changes the data
DbWrite ==
    /\ db.pc = "idle" /\ db.open
    /\ db.dir.v < MaxData
    /\ db' = [db EXCEPT !.dir = AllOf(@.v + 1)]
    /\ UNCHANGED <<live, conn, status, syncing, holders, misuse, call, remote, written, keys>>

\* safe_compact is called; db.export(&export_path)
Export ==
    /\ db.pc = "idle" /\ db.open
    /\ LET d == [db EXCEPT !.did = <<>>, !.data = db.dir, !.ret = Ok(<<>>)]
       IN \/ db' = Done([d EXCEPT !.file = d.dir], "export", "close")
          \/ \E left \in {d.file, Missing, PartOf(d.dir.v)} :
               db' = Failing([d EXCEPT !.file = left], "export", "Export failed")
    /\ UNCHANGED <<live, conn, status, syncing, holders, misuse, call, remote, written, keys>>

\* drop(db)
CloseDb ==
    /\ db.pc = "close"
    /\ db' = Done([db EXCEPT !.open = FALSE], "close", "remove_dir")
    /\ UNCHANGED <<live, conn, status, syncing, holders, misuse, call, remote, written, keys>>

\* std::fs::remove_dir_all(db_path)
RemoveDirAll ==
    /\ db.pc = "remove_dir"
    /\ \/ db' = Done([db EXCEPT !.dir = Missing], "remove_dir", "create_dir")
       \/ \E left \in {db.dir, PartOf(db.dir.v), EmptyDb} :
            db' = Failing([db EXCEPT !.dir = left], "remove_dir",
                          "Failed to remove database directory")
    /\ UNCHANGED <<live, conn, status, syncing, holders, misuse, call, remote, written, keys>>

\* std::fs::create_dir_all(db_path)
CreateDirAll ==
    /\ db.pc = "create_dir"
    /\ \/ db' = Done([db EXCEPT !.dir = EmptyDb], "create_dir", "reopen")
       \/ db' = Failing(db, "create_dir", "Failed to recreate database directory")
    /\ UNCHANGED <<live, conn, status, syncing, holders, misuse, call, remote, written, keys>>

\* Surreal::new::<SurrealKv>(db_path)
Reopen ==
    /\ db.pc = "reopen"
    /\ \/ db' = Done([db EXCEPT !.open = TRUE], "reopen", "use_ns")
       \/ db' = Failing(db, "reopen", "Failed to reopen database")
    /\ UNCHANGED <<live, conn, status, syncing, holders, misuse, call, remote, written, keys>>

\* db.use_ns("ai_toolbox").use_db("main")
UseNs ==
    /\ db.pc = "use_ns"
    /\ \/ db' = Done(db, "use_ns", "import")
       \/ db' = Failing(db, "use_ns", "Failed to select ns/db")
    /\ UNCHANGED <<live, conn, status, syncing, holders, misuse, call, remote, written, keys>>

\* db.import(&export_path): the statements of the file, run in the fresh database
Import ==
    /\ db.pc = "import"
    /\ \/ db' = Done([db EXCEPT !.dir = IF db.file.t = "data" THEN db.file ELSE @],
                     "import", "remove_file")
       \/ \E left \in {db.dir, PartOf(db.file.v)} :
            db' = Failing([db EXCEPT !.dir = left], "import", "Import failed")
    /\ UNCHANGED <<live, conn, status, syncing, holders, misuse, call, remote, written, keys>>

\* let _ = std::fs::remove_file(&export_path); Ok(db)
RemoveExportFile ==
    /\ db.pc = "remove_file"
    /\ \E left \in {Missing, db.file} :
         db' = [Done([db EXCEPT !.file = left], "remove_file", "returned")
                   EXCEPT !.ret = Ok(<<>>)]
    /\ UNCHANGED <<live, conn, status, syncing, holders, misuse, call, remote, written, keys>>

\* the caller goes on with the connection it got back; after an error the
\* application is started again on a database directory that is whole
Resume ==
    /\ db.pc = "returned"
    /\ db.ret.ok \/ db.dir.t = "data"
    /\ db' = [db EXCEPT !.pc = "idle", !.open = TRUE]
    /\ UNCHANGED <<live, conn, status, syncing, holders, misuse, call, remote, written, keys>>

NextCompact ==
    \/ DbWrite
    \/ Export
    \/ CloseDb
    \/ RemoveDirAll
    \/ CreateDirAll
    \/ Reopen
    \/ UseNs
    \/ Import
    \/ RemoveExportFile
    \/ Resume

\* the database under repeated compaction
SpecCompact == Init /\ [][NextCompact]_vars

Next ==
    \/ New
    \/ \E d \in Descriptors : Connect(d)
    \/ IsAlive
    \/ EnsureConnected
    \/ Disconnect
    \/ Drop
    \/ CreateSshCommand
    \/ CreateScpCommand
    \/ TargetStr
    \/ \E c \in Callers : TryAcquireSyncLock(c)
    \/ \E c \in Callers : ReleaseSyncLock(c)

\* the session manager: lifecycle, command factory and sync lock
Spec == Init /\ [][Next]_vars

\* an ensure_connected on a dead channel over a transport that works: every
\* liveness probe it runs fails and every multiplexer spawn it attempts succeeds
Recovery ==
    /\ EnsureConnected
    /\ \A i \in DOMAIN call'.cmds :
         /\ call'.cmds[i].kind = "check" => call'.cmds[i].out.k # "ok"
         /\ call'.cmds[i].kind = "master" => call'.cmds[i].out.k = "ok"

\* the targets connected to while recovery is looked at
RecoverDescriptors == {PasswordConn, KeyConn}

\* the operations that assign the descriptor or the status
NextLifecycle ==
    \/ New
    \/ \E d \in RecoverDescriptors : Connect(d)
    \/ EnsureConnected
    \/ Disconnect
    \/ Drop

\* the life cycle of the session with a caller that keeps calling
\* ensure_connected and a transport that eventually works
SpecRecover == Init /\ [][NextLifecycle]_vars /\ WF_<<conn, status>>(Recovery)

(***************************************************************************)
(* Key files: the functions of key_file.rs, and connect with every kind of *)
(* credential                                                              *)
(***************************************************************************)
\* the key contents tried: empty, blank, two spellings of one PEM key, and a
\* text that is not a PEM key
KeyContents ==
    { <<>>, <<" ">>,
      <<"-----BEGIN", "K1">>, <<" ", "-----BEGIN", "K1", "\n">>,
      <<"ssh-rsa", "K3">> }

KeyPaths == { <<>>, <<"/", "k">> }

\* descriptors with every combination of credentials
AuthDescriptors ==
    { [id |-> "k", host |-> "g", port |-> 2200, username |-> "v",
       auth_method |-> a.method, password |-> a.password,
       private_key_path |-> path, private_key_content |-> content, passphrase |-> phrase] :
        a \in { [method |-> "password", password |-> "pw"],
                [method |-> "password", password |-> ""],
                [method |-> "key", password |-> ""] },
        path \in KeyPaths,
        content \in { <<>>, <<" ">>, <<" ", "-----BEGIN", "K1", "\n">>, <<"ssh-rsa", "K3">> },
        phrase \in {"", "pp"} }

EnsureKeyFile(content) ==
    /\ live
    /\ \E r \in EnsureKeyFileBody(content, keys) :
         /\ keys' = r.keys
         /\ call' = Call("ensure_key_file", <<content>>, r.ret, r.cmds)
    /\ UNCHANGED <<db, remote, written, live, conn, status, syncing, holders, misuse>>

RemoveKeyFile(content) ==
    /\ live
    /\ keys' \in RemoveKeyFileBody(content, keys)
    /\ call' = Call("remove_key_file", <<content>>, Ok(<<>>), <<>>)
    /\ UNCHANGED <<db, remote, written, live, conn, status, syncing, holders, misuse>>

ResolveKeyPathCall(path, content) ==
    /\ live
    /\ \E r \in ResolveKeyPathBody(path, content, keys) :
         /\ keys' = r.keys
         /\ call' = Call("resolve_key_path", <<path, content>>, r.ret, r.cmds)
    /\ UNCHANGED <<db, remote, written, live, conn, status, syncing, holders, misuse>>

\* connect on a session that remembers no descriptor
ConnectFresh(d) == conn = <<>> /\ Connect(d)

NextKeys ==
    \/ \E c \in KeyContents : EnsureKeyFile(c)
    \/ \E c \in KeyContents : RemoveKeyFile(c)
    \/ \E p \in KeyPaths, c \in KeyContents : ResolveKeyPathCall(p, c)
    \/ \E d \in AuthDescriptors : ConnectFresh(d)
    \/ Disconnect

\* the key files, and the sessions that use them
SpecKeys == Init /\ [][NextKeys]_vars

(***************************************************************************)
(* The models endpoint of a provider (open_code/models_api.rs)             *)
(***************************************************************************)
\* the longest base URL tried, in segments after the host
MaxUrlLen == 3

\* a URL is its host followed by segments; "/" is an empty segment (a slash
\* with nothing after it)
UrlSegments == {"/", "/v1", "/v1beta", "/x"}

RECURSIVE UrlTails(_)
UrlTails(n) ==
    IF n = 0 THEN {<<>>}
    ELSE UrlTails(n - 1) \cup {t \o <<g>> : t \in {u \in UrlTails(n - 1) : Len(u) = n - 1}, g \in UrlSegments}

BaseUrls == {<<"http://h">> \o t : t \in UrlTails(MaxUrlLen)}

ApiTypes == {"OpenaiCompat", "Native"}
SdkTypes == {<<>>, <<"@ai-sdk/google">>, <<"@ai-sdk/anthropic">>, <<"@ai-sdk/other">>}
ApiKeys == {<<>>, <<"">>, <<"k">>}

\* str::ends_with for a whole segment
EndsWith(s, seg) == s # <<>> /\ s[Len(s)] = seg

\* str::trim_end_matches: the suffix is removed as often as it is there
RECURSIVE TrimEndMatches(_, _)
TrimEndMatches(s, seg) ==
    IF EndsWith(s, seg) THEN TrimEndMatches(SubSeq(s, 1, Len(s) - 1), seg) ELSE s

\* build_models_url()
BuildModelsUrl(base_url, api_type, sdk_type, api_key) ==
    LET base == TrimEndMatches(base_url, "/")
        base_stripped ==
            IF EndsWith(base, "/v1beta") THEN TrimEndMatches(base, "/v1beta")
            ELSE IF EndsWith(base, "/v1") THEN TrimEndMatches(base, "/v1")
            ELSE base
    IN IF api_type = "OpenaiCompat"
       THEN base_stripped \o <<"/v1", "/models">>
       ELSE IF sdk_type = <<"@ai-sdk/google">>
            THEN LET models_url == base_stripped \o <<"/v1beta", "/models">>
                 IN IF api_key # <<>> /\ api_key[1] # ""
                    THEN models_url \o <<"?key=", api_key[1]>>
                    ELSE models_url
            ELSE base_stripped \o <<"/v1", "/models">>

(***************************************************************************)
(* The local machine: home directory, environment and files                *)
(***************************************************************************)
\* dirs::home_dir()
HomeDir == <<"/", "h">>

\* std::env::var(name): <<>> when unset, <<value>> when set (a Unix desktop)
EnvVar(name) == IF name = "HOME" THEN <<HomeDir>> ELSE <<>>

\* the local files and directories that exist, in the order glob enumerates them
LocalFiles ==
    << <<"/", "h", "/", "a">>,
       <<"/", "h", "/", "b", ".x">>,
       <<"/", "h", "/", "c", ".x">>,
       <<"/", "h", "/", "d">> >>

\* Path::exists
LocalExists(p) == \E i \in DOMAIN LocalFiles : LocalFiles[i] = p

StartsWith(s, prefix) == Len(s) >= Len(prefix) /\ SubSeq(s, 1, Len(prefix)) = prefix

\* expand_local_path: a leading ~ and the %VAR% / $VAR placeholders that are set
ExpandLocalPath(path) ==
    LET tilde == IF StartsWith(path, <<"~", "/">>) \/ path = <<"~">>
                 THEN HomeDir \o Tail(path)
                 ELSE path
        value(v) == IF v = "HOME" /\ EnvVar("HOME") = <<>> THEN EnvVar("USERPROFILE")
                    ELSE EnvVar(v)
        step(r, v) == IF value(v) = <<>> THEN r
                      ELSE Replace(Replace(r, "%" \o v \o "%", value(v)[1]),
                                   "$" \o v, value(v)[1])
    IN step(step(step(step(tilde, "USERPROFILE"), "APPDATA"), "LOCALAPPDATA"), "HOME")

\* glob::glob fails on a malformed pattern: a character class that is never closed
GlobValid(pat) ==
    \A i \in DOMAIN pat : pat[i] = "[" => \E j \in (i + 1)..Len(pat) : pat[j] = "]"

\* glob matching of one path: * matches any run of tokens within a path component
RECURSIVE GlobMatch(_, _)
GlobMatch(pat, name) ==
    IF pat = <<>> THEN name = <<>>
    ELSE IF Head(pat) = "*"
         THEN \/ GlobMatch(Tail(pat), name)
              \/ name # <<>> /\ Head(name) # "/" /\ GlobMatch(pat, Tail(name))
         ELSE name # <<>> /\ Head(name) = Head(pat) /\ GlobMatch(Tail(pat), Tail(name))

\* the matches of a valid pattern
Glob(pat) == SelectSeq(LocalFiles, LAMBDA f : GlobMatch(pat, f))

\* Path::file_name: the tokens after the last "/"
RECURSIVE FileName(_)
FileName(p) ==
    IF p = <<>> \/ p[Len(p)] = "/" THEN <<>>
    ELSE FileName(SubSeq(p, 1, Len(p) - 1)) \o <<p[Len(p)]>>

(***************************************************************************)
(* Inputs of the sync layer                                                *)
(***************************************************************************)
PathTokens == {" ", "/", "~", "$HOME", "a"}

RemotePaths == TextsUpTo(PathTokens, MaxPathLen)

LocalPaths ==
    { <<"~", "/", "a">>,               \* an existing file, through the home shorthand
      <<"$HOME", "/", "d">>,           \* an existing directory, through $HOME
      <<"/", "h", "/", "nope">>,       \* does not exist
      <<"~", "a">>,                    \* not the home shorthand; does not exist
      <<"/", "h", "/", "*", ".x">>,    \* a pattern with two matches
      <<"/", "h", "/", "b", "*">>,     \* a pattern with one match
      <<"/", "h", "/", "*", ".y">>,    \* a pattern with no match
      <<"/", "h", "/", "[">> }         \* a malformed pattern

LinkTargets == { <<"~", "/", "t">>, <<"/", "t">> }

(***************************************************************************)
(* Remote commands of the sync layer.  A shell script is the list of its   *)
(* simple commands, joined by && in the code.                              *)
(***************************************************************************)
\* mkdir -p "$(dirname "<path>")"
MkdirParent(path) == [verb |-> "mkdir -p dirname", path |-> path, src |-> <<>>]

\* mkdir -p "<path>"
MkdirAll(path) == [verb |-> "mkdir -p", path |-> path, src |-> <<>>]

\* rm -rf "<path>"
RmRf(path) == [verb |-> "rm -rf", path |-> path, src |-> <<>>]

\* ln -s "<target>" "<path>"
LnS(target, path) == [verb |-> "ln -s", path |-> path, src |-> target]

\* session.create_ssh_command() with the script as its last argument
SshCommand(cn, script) ==
    LET c == CreateSshCommandBody(cn).val
    IN [prog |-> c.prog, env |-> c.env, args |-> c.args, script |-> script]

\* session.create_scp_command() with more arguments
ScpCommand(cn, more) ==
    LET c == CreateScpCommandBody(cn).val
    IN [prog |-> c.prog, env |-> c.env, args |-> c.args \o more, script |-> <<>>]

\* the run of a remote shell command, and of a copy
SshRun(cn, script, out) == Ran("ssh", SshCommand(cn, script), out)

ScpRun(cn, more, out) == Ran("scp", ScpCommand(cn, more), out)

\* path.replace("~", "$HOME")
ExpandRemoteHome(path) == Replace(path, "~", <<"$HOME">>)

\* the guard without the trim
IsDangerousPath_NoTrim(path) ==
    path = <<>> \/ path = <<"/">> \/ path = <<"~">> \/ path = <<"$HOME">>

\* the guard of sync_directory and remove_remote_path
IsDangerousPath(path) ==
    LET trimmed == Trim(path)
    IN trimmed = <<>> \/ trimmed = <<"/">> \/ trimmed = <<"~">> \/ trimmed = <<"$HOME">>

\* a transfer that tries the copy although the preparatory command failed
PrepareThenCopy_CopyAnyway(prepCmd, copyCmd, prepFailed, copyFailed, done) ==
    UNION {
      {CASE o2.k = "nolaunch" ->
              [ret |-> Err(<<"SCP could not be run: ">> \o o2.text),
               cmds |-> <<Ran("ssh", prepCmd, o1), Ran("scp", copyCmd, o2)>>]
         [] o2.k = "exit" ->
              [ret |-> Err(copyFailed \o Trim(o2.text)),
               cmds |-> <<Ran("ssh", prepCmd, o1), Ran("scp", copyCmd, o2)>>]
         [] o2.k = "ok" ->
              [ret |-> Ok(<<done>>),
               cmds |-> <<Ran("ssh", prepCmd, o1), Ran("scp", copyCmd, o2)>>] :
       o2 \in Outcomes} :
      o1 \in Outcomes}

\* the outcome of a preparatory ssh command followed by one copy
PrepareThenCopy(prepCmd, copyCmd, prepFailed, copyFailed, done) ==
    UNION {
      CASE o1.k = "nolaunch" -> {[ret |-> Err(prepFailed \o o1.text), cmds |-> <<Ran("ssh", prepCmd, o1)>>]}
        [] o1.k = "exit" -> {[ret |-> Err(prepFailed \o Trim(o1.text)), cmds |-> <<Ran("ssh", prepCmd, o1)>>]}
        [] o1.k = "ok" ->
             {CASE o2.k = "nolaunch" ->
                     [ret |-> Err(<<"SCP could not be run: ">> \o o2.text),
                      cmds |-> <<Ran("ssh", prepCmd, o1), Ran("scp", copyCmd, o2)>>]
                [] o2.k = "exit" ->
                     [ret |-> Err(copyFailed \o Trim(o2.text)), cmds |-> <<Ran("ssh", prepCmd, o1), Ran("scp", copyCmd, o2)>>]
                [] o2.k = "ok" ->
                     [ret |-> Ok(<<done>>), cmds |-> <<Ran("ssh", prepCmd, o1), Ran("scp", copyCmd, o2)>>] :
              o2 \in Outcomes} :
      o1 \in Outcomes}

\* a sync_single_file without the existence check
SyncSingleFileBody_NoExistsCheck(local_path, remote_path, cn) ==
    LET expanded == ExpandLocalPath(local_path)
        remote_target == ExpandRemoteHome(remote_path)
        target == TargetStrBody(cn)
        mkdir == SshCommand(cn, <<MkdirParent(remote_target)>>)
        scp == ScpCommand(cn, <<expanded, target.val \o <<":">> \o remote_path>>)
    IN IF ~target.ok THEN {[ret |-> target, cmds |-> <<>>]}
       ELSE PrepareThenCopy(mkdir, scp, <<"creating remote directory failed: ">>,
                            <<"SCP failed: ">>, local_path \o <<" -> ">> \o remote_path)

\* sync_single_file(): the possible [ret, cmds]
SyncSingleFileBody(local_path, remote_path, cn) ==
    LET expanded == ExpandLocalPath(local_path)
        remote_target == ExpandRemoteHome(remote_path)
        target == TargetStrBody(cn)
        mkdir == SshCommand(cn, <<MkdirParent(remote_target)>>)
        scp == ScpCommand(cn, <<expanded, target.val \o <<":">> \o remote_path>>)
    IN IF ~LocalExists(expanded) THEN {[ret |-> Ok(<<>>), cmds |-> <<>>]}
       ELSE IF ~target.ok THEN {[ret |-> target, cmds |-> <<>>]}
       ELSE PrepareThenCopy(mkdir, scp, <<"creating remote directory failed: ">>,
                            <<"SCP failed: ">>, local_path \o <<" -> ">> \o remote_path)

\* sync_directory(): the possible [ret, cmds]
SyncDirectoryBody(local_path, remote_path, cn) ==
    LET expanded == ExpandLocalPath(local_path)
        remote_target == ExpandRemoteHome(remote_path)
        target == TargetStrBody(cn)
        prepare == SshCommand(cn, <<MkdirParent(remote_target), RmRf(remote_target)>>)
        scp == ScpCommand(cn, <<<<"-r">>, expanded, target.val \o <<":">> \o remote_path>>)
    IN IF ~LocalExists(expanded) THEN {[ret |-> Ok(<<>>), cmds |-> <<>>]}
       ELSE IF IsDangerousPath(remote_path)
            THEN {[ret |-> Err(<<"refusing to sync to dangerous path: '">> \o remote_path
                               \o <<"'">>),
                   cmds |-> <<>>]}
       ELSE IF ~target.ok THEN {[ret |-> target, cmds |-> <<>>]}
       ELSE PrepareThenCopy(prepare, scp, <<"preparing remote directory failed: ">>,
                            <<"SCP directory sync failed: ">>,
                            local_path \o <<" -> ">> \o remote_path)

\* a copy loop that gives up at the first copy that fails
RECURSIVE CopyMatches_StopAtFirstFailure(_, _, _)
CopyMatches_StopAtFirstFailure(files, remote_dir, cn) ==
    IF files = <<>> THEN {[synced |-> <<>>, cmds |-> <<>>]}
    ELSE LET file_str == Head(files)
             file_name == FileName(file_str)
             remote_dest == TargetStrBody(cn).val \o <<":">> \o remote_dir \o <<"/">> \o file_name
             described == file_str \o <<" -> ">> \o remote_dir \o <<"/">> \o file_name
         IN UNION {
              IF o.k = "ok"
              THEN {[synced |-> <<described>> \o rest.synced,
                     cmds |-> <<ScpRun(cn, <<file_str, remote_dest>>, o)>> \o rest.cmds] :
                      rest \in CopyMatches_StopAtFirstFailure(Tail(files), remote_dir, cn)}
              ELSE {[synced |-> <<>>, cmds |-> <<ScpRun(cn, <<file_str, remote_dest>>, o)>>]} :
              o \in Outcomes}

\* the copy loop of sync_pattern_files: the possible [synced, cmds]
RECURSIVE CopyMatches(_, _, _)
CopyMatches(files, remote_dir, cn) ==
    IF files = <<>> THEN {[synced |-> <<>>, cmds |-> <<>>]}
    ELSE LET file_str == Head(files)
             file_name == FileName(file_str)
             remote_dest == TargetStrBody(cn).val \o <<":">> \o remote_dir \o <<"/">> \o file_name
             described == file_str \o <<" -> ">> \o remote_dir \o <<"/">> \o file_name
         IN UNION {
              {[synced |-> (IF o.k = "ok" THEN <<described>> ELSE <<>>) \o rest.synced,
                cmds |-> <<ScpRun(cn, <<file_str, remote_dest>>, o)>> \o rest.cmds] :
                 rest \in CopyMatches(Tail(files), remote_dir, cn)} :
              o \in Outcomes}

\* sync_pattern_files(): the possible [ret, cmds]
SyncPatternFilesBody(local_pattern, remote_dir, cn) ==
    LET expanded == ExpandLocalPath(local_pattern)
        remote_target == ExpandRemoteHome(remote_dir)
        target == TargetStrBody(cn)
    IN IF ~GlobValid(expanded)
       THEN {[ret |-> Err(<<"invalid glob pattern: ", "Pattern syntax error">>), cmds |-> <<>>]}
       ELSE IF Glob(expanded) = <<>> THEN {[ret |-> Ok(<<>>), cmds |-> <<>>]}
       ELSE IF ~target.ok THEN {[ret |-> target, cmds |-> <<>>]}
       ELSE UNION {
              {[ret |-> Ok(r.synced),
                cmds |-> <<SshRun(cn, <<MkdirAll(remote_target)>>, o1)>> \o r.cmds] :
                 r \in CopyMatches(Glob(expanded), remote_dir, cn)} :
              o1 \in Outcomes}

\* the result of one ssh command that is the whole operation
SshOnly(cn, script, launchFailed, failed) ==
    IF ~CreateSshCommandBody(cn).ok
    THEN {[ret |-> Err(CreateSshCommandBody(cn).val), cmds |-> <<>>]}
    ELSE {CASE o.k = "nolaunch" ->
                 [ret |-> Err(launchFailed \o o.text), cmds |-> <<SshRun(cn, script, o)>>]
            [] o.k = "exit" ->
                 [ret |-> Err(failed \o Trim(o.text)), cmds |-> <<SshRun(cn, script, o)>>]
            [] o.k = "ok" ->
                 [ret |-> Ok(<<>>), cmds |-> <<SshRun(cn, script, o)>>] :
          o \in Outcomes}

\* create_remote_symlink(): the possible [ret, cmds]
CreateRemoteSymlinkBody(cn, target, link_path) ==
    LET target_expanded == ExpandRemoteHome(target)
        link_expanded == ExpandRemoteHome(link_path)
    IN SshOnly(cn, <<MkdirParent(link_expanded), RmRf(link_expanded),
                     LnS(target_expanded, link_expanded)>>,
               <<"creating remote symlink failed: ">>, <<"remote symlink failed: ">>)

\* remove_remote_path(): the possible [ret, cmds]
RemoveRemotePathBody(cn, path) ==
    IF IsDangerousPath(path)
    THEN {[ret |-> Err(<<"refusing to remove dangerous path: '">> \o path \o <<"'">>),
           cmds |-> <<>>]}
    ELSE SshOnly(cn, <<RmRf(ExpandRemoteHome(path))>>,
                 <<"removing remote path failed: ">>, <<"remote removal failed: ">>)

(***************************************************************************)
(* SSHFileMapping and sync_mappings                                        *)
(***************************************************************************)
Mapping(name, module, local_path, remote_path, is_directory, is_pattern, enabled) ==
    [name |-> name, module |-> module, local_path |-> local_path,
     remote_path |-> remote_path, is_directory |-> is_directory,
     is_pattern |-> is_pattern, enabled |-> enabled]

MappingInputs ==
    { Mapping("file", "m1", <<"~", "/", "a">>, <<"~", "/", "r", "/", "a">>, FALSE, FALSE, TRUE),
      Mapping("missing", "m1", <<"/", "h", "/", "nope">>, <<"/", "r", "/", "n">>,
              FALSE, FALSE, TRUE),
      Mapping("dir", "m1", <<"$HOME", "/", "d">>, <<"~", "/", "r", "/", "d">>, TRUE, FALSE, TRUE),
      Mapping("rootdir", "m1", <<"$HOME", "/", "d">>, <<"/">>, TRUE, FALSE, TRUE),
      Mapping("pattern", "m1", <<"/", "h", "/", "b", "*">>, <<"~", "/", "r">>, FALSE, TRUE, TRUE),
      Mapping("off", "m1", <<"~", "/", "a">>, <<"/", "r", "/", "off">>, FALSE, FALSE, FALSE),
      Mapping("other", "m2", <<"~", "/", "a">>, <<"/", "r", "/", "o">>, FALSE, FALSE, TRUE) }

\* all lists of at most n mappings
RECURSIVE MappingLists(_)
MappingLists(n) ==
    IF n = 0 THEN {<<>>}
    ELSE LET shorter == MappingLists(n - 1)
         IN shorter \cup {Append(l, m) : l \in shorter, m \in MappingInputs}

\* Option<&str> module filters: <<>> is None
ModuleFilters == {<<>>, <<"m1">>}

\* the mappings handed to sync_file_mapping: also one with both flags set
SingleMappings ==
    MappingInputs
    \cup { Mapping("both", "m1", <<"$HOME", "/", "d">>, <<"~", "/", "r", "/", "d">>,
                   TRUE, TRUE, TRUE) }

\* a dispatch that looks at the pattern flag first
SyncFileMappingBody_PatternFirst(mapping, cn) ==
    IF mapping.is_pattern
    THEN SyncPatternFilesBody(mapping.local_path, mapping.remote_path, cn)
    ELSE IF mapping.is_directory
         THEN SyncDirectoryBody(mapping.local_path, mapping.remote_path, cn)
         ELSE SyncSingleFileBody(mapping.local_path, mapping.remote_path, cn)

\* sync_file_mapping(): the possible [ret, cmds]
SyncFileMappingBody(mapping, cn) ==
    IF mapping.is_directory
    THEN SyncDirectoryBody(mapping.local_path, mapping.remote_path, cn)
    ELSE IF mapping.is_pattern
         THEN SyncPatternFilesBody(mapping.local_path, mapping.remote_path, cn)
         ELSE SyncSingleFileBody(mapping.local_path, mapping.remote_path, cn)

\* a filter that forgets the enabled flag
FilterMappings_IgnoreEnabled(mappings, module_filter) ==
    SelectSeq(mappings, LAMBDA m : module_filter = <<>> \/ <<m.module>> = module_filter)

\* the mappings sync_mappings processes
FilterMappings(mappings, module_filter) ==
    SelectSeq(mappings,
              LAMBDA m : m.enabled /\ (module_filter = <<>> \/ <<m.module>> = module_filter))

\* the loop of sync_mappings: the possible lists of per-mapping [ret, cmds]
RECURSIVE SyncEach(_, _)
SyncEach(ms, cn) ==
    IF ms = <<>> THEN {<<>>}
    ELSE {<<o>> \o rest : o \in SyncFileMappingBody(Head(ms), cn), rest \in SyncEach(Tail(ms), cn)}

\* the three lists sync_mappings builds from the per-mapping results
RECURSIVE Classify(_, _)
Classify(ms, outs) ==
    IF ms = <<>> THEN [synced_files |-> <<>>, skipped_files |-> <<>>, errors |-> <<>>]
    ELSE LET rest == Classify(Tail(ms), Tail(outs))
             m == Head(ms)
             r == Head(outs).ret
         IN IF r.ok /\ r.val = <<>>
            THEN [rest EXCEPT !.skipped_files = <<<<m.name>>>> \o @]
            ELSE IF r.ok
                 THEN [rest EXCEPT !.synced_files = r.val \o @]
                 ELSE [rest EXCEPT !.errors = <<<<m.name>> \o <<": ">> \o r.val>> \o @]

RECURSIVE Flatten(_)
Flatten(seqs) == IF seqs = <<>> THEN <<>> ELSE Head(seqs) \o Flatten(Tail(seqs))

\* sync_mappings(): the possible [ret, cmds, trace]; trace pairs each processed
\* mapping with what sync_file_mapping returned for it
SyncMappingsBody(mappings, cn, module_filter) ==
    LET filtered == FilterMappings(mappings, module_filter)
    IN {LET lists == Classify(filtered, outs)
        IN [ret |-> Ok([success |-> (lists.errors = <<>>),
                        synced_files |-> lists.synced_files,
                        skipped_files |-> lists.skipped_files,
                        errors |-> lists.errors]),
            cmds |-> Flatten([i \in DOMAIN outs |-> outs[i].cmds]),
            trace |-> [i \in DOMAIN outs |-> [mapping |-> filtered[i], ret |-> outs[i].ret,
                                              cmds |-> outs[i].cmds]]] :
        outs \in SyncEach(filtered, cn)}

(***************************************************************************)
(* The remote host.  The remote shell and file system are not part of the  *)
(* repository; they are modelled as far as the commands above depend on    *)
(* them.  remote maps each observed absolute path to its entry; a path     *)
(* outside DOMAIN remote is not observed: commands on it can succeed, and  *)
(* what lies there is unknown.  Observed paths are never below an observed *)
(* symlink, and where paths are observed the symlinks point to observed    *)
(* paths.                                                                  *)
(***************************************************************************)
\* the home directory of the remote user
RemoteHome == <<"/", "u">>

\* the file contents tried
Contents == { <<"hello", "\n">>, <<>> }

\* tokens that cannot continue the name of a shell variable
Punctuation == {" ", "/", "~", "$HOME", ":", "\n", ".x", ".y", "*", "[", "]"}

\* what a double-quoted word of the script is after parameter expansion:
\* $HOME is the home directory, $HOME followed by a name is an unset variable
RECURSIVE ShellExpand(_)
ShellExpand(s) ==
    IF s = <<>> THEN <<>>
    ELSE IF Head(s) = "$HOME"
         THEN IF Len(s) >= 2 /\ s[2] \notin Punctuation
              THEN ShellExpand(Tail(Tail(s)))
              ELSE RemoteHome \o ShellExpand(Tail(s))
         ELSE <<Head(s)>> \o ShellExpand(Tail(s))

NoEntry == [t |-> "none", v |-> <<>>]
FileEntry(content) == [t |-> "file", v |-> content]
DirEntry == [t |-> "dir", v |-> <<>>]
LinkEntry(target) == [t |-> "link", v |-> target]

\* p lies below the directory d
Below(p, d) == Len(p) > Len(d) + 1 /\ StartsWith(p, d \o <<"/">>)

\* the observed path reached from p through symlinks
RECURSIVE Follow(_, _, _)
Follow(fs, p, fuel) ==
    IF fuel > 0 /\ p \in DOMAIN fs /\ fs[p].t = "link"
    THEN Follow(fs, fs[p].v, fuel - 1)
    ELSE p

Deref(fs, p) == Follow(fs, p, Cardinality(DOMAIN fs))

KindAt(fs, p) == IF p \in DOMAIN fs THEN fs[p].t ELSE "unobserved"

Put(fs, p, e) == IF p \in DOMAIN fs THEN [fs EXCEPT ![p] = e] ELSE fs

\* every observed directory above p is a directory
Writable(fs, p) ==
    \A d \in DOMAIN fs : Below(p, d) => KindAt(fs, Deref(fs, d)) \in {"dir", "unobserved"}

\* mkdir -p of the observed paths in dirs
MkdirP(fs, dirs) ==
    IF \A d \in dirs : \/ fs[d].t \in {"none", "dir"}
                       \/ fs[d].t = "link" /\ KindAt(fs, Deref(fs, d)) \in {"dir", "unobserved"}
    THEN [fs |-> [q \in DOMAIN fs |-> IF q \in dirs /\ fs[q].t = "none" THEN DirEntry ELSE fs[q]],
          ok |-> TRUE]
    ELSE [fs |-> fs, ok |-> FALSE]

\* if [ -f "<path>" ]; then cat "<path>"; else echo ''; fi
CatIfFile(path) == [verb |-> "cat if -f", path |-> path, src |-> <<>>]

\* cat > "<path>", with the content on standard input
CatInto(path, content) == [verb |-> "cat >", path |-> path, src |-> content]

\* [ -L "<path>" ] && [ "$(readlink "<path>")" = "<target>" ] && echo yes || echo no
TestLink(path, target) == [verb |-> "test -L readlink", path |-> path, src |-> target]

\* one simple command of a script on the remote host: the file system after it
\* and whether it exited 0
Step(fs, st) ==
    LET p == ShellExpand(st.path)
        above == {d \in DOMAIN fs : Below(p, d)}
        q == Deref(fs, p)
    IN CASE st.verb = "mkdir -p dirname" -> MkdirP(fs, above)
         [] st.verb = "mkdir -p" ->
              IF p = <<>> THEN [fs |-> fs, ok |-> FALSE]
              ELSE MkdirP(fs, above \cup ({p} \cap DOMAIN fs))
         [] st.verb = "rm -rf" ->
              [fs |-> [d \in DOMAIN fs |-> IF d = p \/ Below(d, p) THEN NoEntry ELSE fs[d]],
               ok |-> TRUE]
         [] st.verb = "ln -s" ->
              IF p = <<>> \/ ~Writable(fs, p) \/ KindAt(fs, p) \in {"file", "link"}
              THEN [fs |-> fs, ok |-> FALSE]
              ELSE IF KindAt(fs, p) = "none"
                   THEN [fs |-> Put(fs, p, LinkEntry(ShellExpand(st.src))), ok |-> TRUE]
                   ELSE [fs |-> fs, ok |-> TRUE]
         [] st.verb = "cat >" ->
              IF p = <<>> \/ ~Writable(fs, q) \/ KindAt(fs, q) \in {"dir", "link"}
              THEN [fs |-> fs, ok |-> FALSE]
              ELSE [fs |-> Put(fs, q, FileEntry(st.src)), ok |-> TRUE]
         [] OTHER -> [fs |-> fs, ok |-> TRUE]

\* a script: its simple commands joined by &&
RECURSIVE RunSteps(_, _)
RunSteps(fs, script) ==
    IF script = <<>> THEN [fs |-> fs, ok |-> TRUE]
    ELSE LET r == Step(fs, Head(script))
         IN IF r.ok THEN RunSteps(r.fs, Tail(script)) ELSE r

\* the file systems a script can leave behind when ssh exits non-zero: the
\* script failed, or the connection was lost before, while or after it ran
Interrupted(fs, script) ==
    {RunSteps(fs, SubSeq(script, 1, k)).fs : k \in 0..Len(script)}
    \cup (IF script # <<>> /\ script[Len(script)].verb = "cat >"
          THEN {RunSteps(fs, [script EXCEPT ![Len(script)].src = SubSeq(@, 1, n)]).fs :
                  n \in 0..Len(script[Len(script)].src)}
          ELSE {})

\* the content of a local file, as scp transfers it
LocalContent(local) == <<"data of ">> \o local

\* the remote file system after scp <source> <user@host>:<path> exited 0; the
\* paths tried are those that scp and the remote shell resolve alike
ScpStep(fs, args) ==
    LET dest == args[Len(args)]
        source == args[Len(args) - 1]
        p == ShellExpand(ExpandRemoteHome(SubSeq(dest, 3, Len(dest))))
        q == Deref(fs, p)
        recursive == \E i \in DOMAIN args : args[i] = <<"-r">>
    IN IF ~Writable(fs, q) THEN [fs |-> fs, ok |-> FALSE]
       ELSE IF recursive
            THEN IF KindAt(fs, q) \in {"file", "link"} THEN [fs |-> fs, ok |-> FALSE]
                 ELSE IF KindAt(fs, q) = "none" THEN [fs |-> Put(fs, q, DirEntry), ok |-> TRUE]
                 ELSE [fs |-> fs, ok |-> TRUE]
            ELSE IF KindAt(fs, q) = "link" THEN [fs |-> fs, ok |-> FALSE]
                 ELSE IF KindAt(fs, q) \in {"none", "file"}
                      THEN [fs |-> Put(fs, q, FileEntry(LocalContent(source))), ok |-> TRUE]
                      ELSE [fs |-> fs, ok |-> TRUE]

\* the remote file systems one subprocess can leave behind, given its outcome;
\* none when the outcome cannot happen on this file system
CommandEffects(fs, c) ==
    IF c.out.k = "nolaunch" \/ c.kind \notin {"ssh", "scp"} THEN {fs}
    ELSE IF c.kind = "ssh"
         THEN IF c.out.k = "ok"
              THEN (IF RunSteps(fs, c.cmd.script).ok THEN {RunSteps(fs, c.cmd.script).fs} ELSE {})
              ELSE Interrupted(fs, c.cmd.script)
         ELSE IF c.out.k = "ok"
              THEN (IF ScpStep(fs, c.cmd.args).ok THEN {ScpStep(fs, c.cmd.args).fs} ELSE {})
              ELSE {fs, ScpStep(fs, c.cmd.args).fs}

\* the remote file systems the subprocesses of a call can leave behind
RECURSIVE Effects(_, _)
Effects(fs, cmds) ==
    IF cmds = <<>> THEN {fs}
    ELSE UNION {Effects(g, Tail(cmds)) : g \in CommandEffects(fs, Head(cmds))}

(***************************************************************************)
(* Remote file operations                                                  *)
(***************************************************************************)
\* what the read script prints
ReadStdout(fs, path) ==
    LET q == Deref(fs, ShellExpand(path))
    IN IF q \in DOMAIN fs
       THEN {IF fs[q].t = "file" THEN fs[q].v ELSE <<"\n">>}
       ELSE Contents \cup {<<"\n">>}

\* read_remote_file(): the possible [ret, cmds]
ReadRemoteFileBody(cn, path, fs) ==
    LET remote_path == ExpandRemoteHome(path)
        run(o) == SshRun(cn, <<CatIfFile(remote_path)>>, o)
    IN IF ~CreateSshCommandBody(cn).ok
       THEN {[ret |-> Err(CreateSshCommandBody(cn).val), cmds |-> <<>>]}
       ELSE UNION {
              CASE o.k = "nolaunch" ->
                     {[ret |-> Err(<<"reading remote file failed: ">> \o o.text),
                       cmds |-> <<run(o)>>]}
                [] o.k = "exit" ->
                     {[ret |-> Err(<<"SSH command failed: ">> \o Trim(o.text)),
                       cmds |-> <<run(o)>>]}
                [] o.k = "ok" ->
                     {[ret |-> Ok(stdout), cmds |-> <<run(o)>>] :
                        stdout \in ReadStdout(fs, remote_path)} :
              o \in Outcomes}

\* the outcomes of a child process that is fed through a pipe: also a failed
\* write to its standard input and a failed wait
PipedOutcomes ==
    Outcomes \cup {[k |-> "pipe", text |-> <<"Broken pipe">>],
                   [k |-> "wait", text |-> <<"No child processes">>]}

\* a write_remote_file that hands the path to the remote shell as it is
WriteRemoteFileBody_NoHomeExpansion(cn, path, content) ==
    LET run(o) == SshRun(cn, <<MkdirParent(path), CatInto(path, content)>>, o)
    IN IF ~CreateSshCommandBody(cn).ok
       THEN {[ret |-> Err(CreateSshCommandBody(cn).val), cmds |-> <<>>]}
       ELSE {[ret |-> IF o.k = "ok" THEN Ok(<<>>) ELSE Err(<<"SSH write command failed">>),
              cmds |-> <<run(o)>>] :
             o \in PipedOutcomes}

\* write_remote_file(): the possible [ret, cmds]
WriteRemoteFileBody(cn, path, content) ==
    LET remote_path == ExpandRemoteHome(path)
        run(o) == SshRun(cn, <<MkdirParent(remote_path), CatInto(remote_path, content)>>, o)
    IN IF ~CreateSshCommandBody(cn).ok
       THEN {[ret |-> Err(CreateSshCommandBody(cn).val), cmds |-> <<>>]}
       ELSE {[ret |-> CASE o.k = "nolaunch" -> Err(<<"launching the SSH command failed: ">> \o o.text)
                        [] o.k = "pipe" -> Err(<<"writing stdin failed: ">> \o o.text)
                        [] o.k = "wait" -> Err(<<"waiting for the SSH command failed: ">> \o o.text)
                        [] o.k = "exit" -> Err(<<"SSH write command failed">>)
                        [] o.k = "ok" -> Ok(<<>>),
              cmds |-> <<run(o)>>] :
             o \in PipedOutcomes}

\* what the test script prints
CheckStdout(fs, link_expanded, target_expanded) ==
    LET p == ShellExpand(link_expanded)
        answer(e) == IF e.t = "link" /\ e.v = ShellExpand(target_expanded)
                     THEN <<"yes", "\n">> ELSE <<"no", "\n">>
    IN IF p \in DOMAIN fs THEN {answer(fs[p])}
       ELSE {<<"yes", "\n">>, <<"no", "\n">>}

\* a check_remote_symlink_exists that takes a test it could not run for a yes
CheckRemoteSymlinkExistsBody_LaunchFailureIsTrue(cn, link_path, expected_target, fs) ==
    LET run(o) == SshRun(cn, <<TestLink(ExpandRemoteHome(link_path),
                                        ExpandRemoteHome(expected_target))>>, o)
    IN IF ~CreateSshCommandBody(cn).ok THEN {[ret |-> Ok(FALSE), cmds |-> <<>>]}
       ELSE {[ret |-> Ok(TRUE), cmds |-> <<run(o)>>] : o \in Outcomes}

\* check_remote_symlink_exists(): the possible [ret, cmds]; a run that exits
\* non-zero printed nothing
CheckRemoteSymlinkExistsBody(cn, link_path, expected_target, fs) ==
    LET link_expanded == ExpandRemoteHome(link_path)
        target_expanded == ExpandRemoteHome(expected_target)
        run(o) == SshRun(cn, <<TestLink(link_expanded, target_expanded)>>, o)
    IN IF ~CreateSshCommandBody(cn).ok THEN {[ret |-> Ok(FALSE), cmds |-> <<>>]}
       ELSE UNION {
              CASE o.k = "nolaunch" -> {[ret |-> Ok(FALSE), cmds |-> <<run(o)>>]}
                [] OTHER ->
                     {[ret |-> Ok(Trim(stdout) = <<"yes">>), cmds |-> <<run(o)>>] :
                        stdout \in IF o.k = "ok"
                                   THEN CheckStdout(fs, link_expanded, target_expanded)
                                   ELSE {<<>>}} :
              o \in Outcomes}

\* if [ -d "<path>" ]; then ls -1 "<path>"; fi
LsIfDir(path) == [verb |-> "ls -1 if -d", path |-> path, src |-> <<>>]

\* str::lines and the filter that drops the empty ones; cur is the line being read
RECURSIVE NonEmptyLines(_, _)
NonEmptyLines(text, cur) ==
    LET line == IF cur = <<>> THEN <<>> ELSE <<cur>>
    IN IF text = <<>> THEN line
       ELSE IF Head(text) = "\n" THEN line \o NonEmptyLines(Tail(text), <<>>)
            ELSE NonEmptyLines(Tail(text), Append(cur, Head(text)))

\* what ls -1 can print for a directory that is not observed
LsOutputs == { <<>>, <<"x", "\n">>, <<"x", "\n", "y", " ", "z", "\n">> }

\* what the list script prints when it runs to its end: nothing unless the path
\* is a directory, else a line for each entry (the observed directories hold at
\* most one entry)
ListStdout(fs, path) ==
    LET q == Deref(fs, ShellExpand(path))
        entries == {d \in DOMAIN fs : Below(d, q) /\ Len(d) = Len(q) + 2 /\ fs[d].t # "none"}
    IN IF q \notin DOMAIN fs THEN LsOutputs
       ELSE IF fs[q].t # "dir" THEN {<<>>}
            ELSE IF entries = {} THEN {<<>>}
                 ELSE {<<d[Len(d)], "\n">> : d \in entries}

\* the prefixes of a text: what was printed before the command was cut short
Prefixes(text) == {SubSeq(text, 1, n) : n \in 0..Len(text)}

\* a list_remote_dir that reports a non-zero exit as an error
ListRemoteDirBody_ChecksExit(cn, path, fs) ==
    LET remote_path == ExpandRemoteHome(path)
        run(o) == SshRun(cn, <<LsIfDir(remote_path)>>, o)
    IN IF ~CreateSshCommandBody(cn).ok
       THEN {[ret |-> Err(CreateSshCommandBody(cn).val), cmds |-> <<>>]}
       ELSE UNION {
              CASE o.k = "ok" ->
                     {[ret |-> Ok(NonEmptyLines(stdout, <<>>)), cmds |-> <<run(o)>>] :
                        stdout \in ListStdout(fs, remote_path)}
                [] OTHER ->
                     {[ret |-> Err(<<"listing remote directory failed: ">> \o o.text),
                       cmds |-> <<run(o)>>]} :
              o \in Outcomes}

\* list_remote_dir(): the possible [ret, cmds]
ListRemoteDirBody(cn, path, fs) ==
    LET remote_path == ExpandRemoteHome(path)
        run(o) == SshRun(cn, <<LsIfDir(remote_path)>>, o)
    IN IF ~CreateSshCommandBody(cn).ok
       THEN {[ret |-> Err(CreateSshCommandBody(cn).val), cmds |-> <<>>]}
       ELSE UNION {
              CASE o.k = "nolaunch" ->
                     {[ret |-> Err(<<"listing remote directory failed: ">> \o o.text),
                       cmds |-> <<run(o)>>]}
                [] OTHER ->
                     {[ret |-> Ok(NonEmptyLines(stdout, <<>>)), cmds |-> <<run(o)>>] :
                        stdout \in IF o.k = "ok"
                                   THEN ListStdout(fs, remote_path)
                                   ELSE UNION {Prefixes(t) : t \in ListStdout(fs, remote_path)}} :
              o \in Outcomes}

(***************************************************************************)
(* The sync layer as a state machine.  Its functions borrow the session    *)
(* immutably; the session states it is called in are states of Spec.  An   *)
(* operation runs when the previous result has been taken (Return).        *)
(***************************************************************************)
SyncSessions ==
    { [conn |-> <<>>, status |-> Disconnected, syncing |-> FALSE],
      [conn |-> <<KeyConn>>, status |-> Connected, syncing |-> TRUE],
      [conn |-> <<PasswordConn>>,
       status |-> Failed(<<"SSH master connection failed: ", "denied">>), syncing |-> FALSE] }

InitSync ==
    /\ live = TRUE
    /\ \E s \in SyncSessions :
         /\ conn = s.conn
         /\ status = s.status
         /\ syncing = s.syncing
         /\ holders = IF s.syncing THEN {1} ELSE {}
    /\ misuse = FALSE
    /\ call = Idle
    /\ remote = <<>>
    /\ written = <<>>
    /\ keys = {}
    /\ db = DbInit

session == <<live, conn, status, syncing, holders, misuse>>

\* a sync layer that records a command that did not succeed in the session status
SessionAfter_RecordsFailure(s, cmds) ==
    IF \E i \in DOMAIN cmds : cmds[i].out.k # "ok"
    THEN [s EXCEPT !.status = Failed(<<"SSH command failed">>)]
    ELSE s

\* the session after a function of the sync layer has run cmds: the functions
\* take session: &SshSession and call only target_str, create_ssh_command and
\* create_scp_command on it, which assign no field
SessionAfter(s, cmds) == s

\* the session as the sync layer hands it back
LendSession(cmds) ==
    LET s == SessionAfter([conn |-> conn, status |-> status, syncing |-> syncing], cmds)
    IN /\ conn' = s.conn
       /\ status' = s.status
       /\ syncing' = s.syncing
       /\ UNCHANGED <<db, live, holders, misuse, keys>>

SyncSingleFile(local_path, remote_path) ==
    /\ call.op = "idle"
    /\ \E r \in SyncSingleFileBody(local_path, remote_path, conn) :
         /\ call' = Call("sync_single_file", [local |-> local_path, remote |-> remote_path],
                        r.ret, r.cmds)
         /\ remote' \in Effects(remote, r.cmds)
         /\ LendSession(r.cmds)
         /\ written' = <<>>

SyncDirectory(local_path, remote_path) ==
    /\ call.op = "idle"
    /\ \E r \in SyncDirectoryBody(local_path, remote_path, conn) :
         /\ call' = Call("sync_directory", [local |-> local_path, remote |-> remote_path],
                        r.ret, r.cmds)
         /\ remote' \in Effects(remote, r.cmds)
         /\ LendSession(r.cmds)
         /\ written' = <<>>

SyncPatternFiles(local_pattern, remote_dir) ==
    /\ call.op = "idle"
    /\ \E r \in SyncPatternFilesBody(local_pattern, remote_dir, conn) :
         /\ call' = Call("sync_pattern_files", [local |-> local_pattern, remote |-> remote_dir],
                        r.ret, r.cmds)
         /\ remote' \in Effects(remote, r.cmds)
         /\ LendSession(r.cmds)
         /\ written' = <<>>

SyncMappings(mappings, module_filter) ==
    /\ call.op = "idle"
    /\ \E r \in SyncMappingsBody(mappings, conn, module_filter) :
         /\ call' = [Call("sync_mappings", [mappings |-> mappings, module_filter |-> module_filter],
                         r.ret, r.cmds) EXCEPT !.trace = r.trace]
         /\ remote' \in Effects(remote, r.cmds)
         /\ LendSession(r.cmds)
         /\ written' = <<>>

CreateRemoteSymlink(target, link_path) ==
    /\ call.op = "idle"
    /\ \E r \in CreateRemoteSymlinkBody(conn, target, link_path) :
         /\ call' = Call("create_remote_symlink", [local |-> target, remote |-> link_path],
                        r.ret, r.cmds)
         /\ remote' \in Effects(remote, r.cmds)
         /\ LendSession(r.cmds)
         /\ written' = <<>>

RemoveRemotePath(path) ==
    /\ call.op = "idle"
    /\ \E r \in RemoveRemotePathBody(conn, path) :
         /\ call' = Call("remove_remote_path", [local |-> <<>>, remote |-> path], r.ret, r.cmds)
         /\ remote' \in Effects(remote, r.cmds)
         /\ LendSession(r.cmds)
         /\ written' = <<>>

SyncFileMapping(mapping) ==
    /\ call.op = "idle"
    /\ \E r \in SyncFileMappingBody(mapping, conn) :
         /\ call' = Call("sync_file_mapping", [mapping |-> mapping], r.ret, r.cmds)
         /\ remote' \in Effects(remote, r.cmds)
         /\ LendSession(r.cmds)
         /\ written' = <<>>

ListRemoteDir(path) ==
    /\ call.op = "idle"
    /\ \E r \in ListRemoteDirBody(conn, path, remote) :
         /\ call' = Call("list_remote_dir", [local |-> <<>>, remote |-> path], r.ret, r.cmds)
         /\ remote' \in Effects(remote, r.cmds)
         /\ LendSession(r.cmds)
    /\ UNCHANGED written

ReadRemoteFile(path) ==
    /\ call.op = "idle"
    /\ \E r \in ReadRemoteFileBody(conn, path, remote) :
         /\ call' = Call("read_remote_file", [local |-> <<>>, remote |-> path], r.ret, r.cmds)
         /\ remote' \in Effects(remote, r.cmds)
         /\ LendSession(r.cmds)
    /\ UNCHANGED written

WriteRemoteFile(path, content) ==
    /\ call.op = "idle"
    /\ \E r \in WriteRemoteFileBody(conn, path, content) :
         /\ call' = Call("write_remote_file", [local |-> content, remote |-> path],
                         r.ret, r.cmds)
         /\ remote' \in Effects(remote, r.cmds)
         /\ LendSession(r.cmds)
         /\ written' = IF r.ret.ok
                       THEN <<[path |-> path, content |-> content,
                               file |-> r.cmds[1].cmd.script[2].path]>>
                       ELSE <<>>

CheckRemoteSymlinkExists(link_path, expected_target) ==
    /\ call.op = "idle"
    /\ \E r \in CheckRemoteSymlinkExistsBody(conn, link_path, expected_target, remote) :
         /\ call' = Call("check_remote_symlink_exists",
                         [local |-> expected_target, remote |-> link_path], r.ret, r.cmds)
         /\ remote' \in Effects(remote, r.cmds)
         /\ LendSession(r.cmds)
    /\ UNCHANGED written

\* the caller takes the result
Return ==
    /\ call.op # "idle"
    /\ call' = Idle
    /\ UNCHANGED <<db, session, remote, written, keys>>

\* build_models_url() called and its result looked at
BuildModelsUrlCall(base_url, api_type, sdk_type, api_key) ==
    /\ call.op = "idle"
    /\ call' = Call("build_models_url", <<base_url, api_type, sdk_type, api_key>>,
                    Ok(BuildModelsUrl(base_url, api_type, sdk_type, api_key)), <<>>)
    /\ UNCHANGED <<db, session, remote, written, keys>>

NextUrl ==
    \/ \E b \in BaseUrls, a \in ApiTypes, t \in SdkTypes, k \in ApiKeys :
          BuildModelsUrlCall(b, a, t, k)
    \/ Return

\* the models endpoint, over every base URL up to MaxUrlLen segments
SpecUrl == Init /\ [][NextUrl]_vars

(***************************************************************************)
(* The remote paths that are observed, and the inputs aimed at them        *)
(***************************************************************************)
\* the remote paths that are observed: a directory, a file in it, a link beside it
ObservedPaths ==
    { <<"/", "u", "/", "c">>, <<"/", "u", "/", "c", "/", "x">>, <<"/", "u", "/", "l">> }

\* the remote file systems at the start
RemoteInits ==
    { [q \in ObservedPaths |-> NoEntry],
      [q \in ObservedPaths |->
         CASE q = <<"/", "u", "/", "c">> -> DirEntry
           [] q = <<"/", "u", "/", "c", "/", "x">> -> FileEntry(<<"old">>)
           [] OTHER -> LinkEntry(<<"/", "u", "/", "c", "/", "x">>)] }

\* the paths handed to the operations
RemoteFilePaths == { <<"~", "/", "c", "/", "x">>, <<"~", "/", "l">> }

RemoteLinkPaths == { <<"~", "/", "l">> }

RemoteDirPaths == { <<"~", "/", "c">> }

\* the link targets tried are observed paths
RemoteLinkTargets == { <<"~", "/", "c", "/", "x">>, <<"$HOME", "/", "c">> }

LocalDirs == { <<"$HOME", "/", "d">>, <<"/", "h", "/", "nope">> }

LocalPlainFiles == { <<"~", "/", "a">> }

NextSync ==
    \/ \E l \in LocalPaths, p \in RemotePaths : SyncSingleFile(l, p)
    \/ \E l \in LocalPaths, p \in RemotePaths : SyncDirectory(l, p)
    \/ \E l \in LocalPaths, p \in RemotePaths : SyncPatternFiles(l, p)
    \/ \E ms \in MappingLists(MaxMappings), f \in ModuleFilters : SyncMappings(ms, f)
    \/ \E t \in LinkTargets, p \in RemotePaths : CreateRemoteSymlink(t, p)
    \/ \E p \in RemotePaths : RemoveRemotePath(p)
    \/ \E m \in SingleMappings : SyncFileMapping(m)
    \/ \E p \in RemoteFilePaths : ReadRemoteFile(p)
    \/ \E p \in RemoteFilePaths, c \in Contents : WriteRemoteFile(p, c)
    \/ \E p \in RemoteLinkPaths, t \in LinkTargets : CheckRemoteSymlinkExists(p, t)
    \/ \E p \in RemoteDirPaths : ListRemoteDir(p)
    \/ Return

\* the sync layer, called on a session in one of its reachable states
SpecSync == InitSync /\ [][NextSync]_vars

(***************************************************************************)
(* The remote file operations, and the transfers, on a remote host whose   *)
(* files are observed                                                      *)
(***************************************************************************)
InitRemote ==
    /\ live = TRUE
    /\ \E s \in SyncSessions :
         /\ conn = s.conn
         /\ status = s.status
         /\ syncing = s.syncing
         /\ holders = IF s.syncing THEN {1} ELSE {}
    /\ misuse = FALSE
    /\ call = Idle
    /\ remote \in RemoteInits
    /\ written = <<>>
    /\ keys = {}
    /\ db = DbInit

NextRemote ==
    \/ \E p \in RemoteFilePaths : ReadRemoteFile(p)
    \/ \E p \in RemoteFilePaths, c \in Contents : WriteRemoteFile(p, c)
    \/ \E p \in RemoteLinkPaths, t \in RemoteLinkTargets : CheckRemoteSymlinkExists(p, t)
    \/ \E t \in RemoteLinkTargets, p \in RemoteLinkPaths : CreateRemoteSymlink(t, p)
    \/ \E p \in RemoteDirPaths \cup RemoteLinkPaths : RemoveRemotePath(p)
    \/ \E l \in LocalDirs, p \in RemoteDirPaths : SyncDirectory(l, p)
    \/ \E l \in LocalPlainFiles, p \in RemoteFilePaths : SyncSingleFile(l, p)
    \/ \E p \in RemoteDirPaths \cup RemoteFilePaths : ListRemoteDir(p)
    \/ Return

\* the sync layer and the remote file operations against an observed remote host
SpecRemote == InitRemote /\ [][NextRemote]_vars

(***************************************************************************)
(* Helpers for the properties                                              *)
(***************************************************************************)
CountKind(kind) == Cardinality({i \in DOMAIN call.cmds : call.cmds[i].kind = kind})

\* the command is addressed to descriptor d: -p <port> and user@host as the last argument
AddressedTo(cmd, d) ==
    /\ cmd.args[Len(cmd.args)] = <<Target(d)>>
    /\ \E i \in 1..(Len(cmd.args) - 1) :
         cmd.args[i] = <<"-p">> /\ cmd.args[i + 1] = <<ToString(d.port)>>

\* the first subprocess of the call was the liveness probe, and it succeeded
FirstProbeOk ==
    /\ call.cmds # <<>>
    /\ call.cmds[1].kind = "check"
    /\ call.cmds[1].out.k = "ok"

\* every liveness probe the call ran reported a dead channel, and there was one
AllProbesFailed ==
    /\ \E i \in DOMAIN call.cmds : call.cmds[i].kind = "check"
    /\ \A i \in DOMAIN call.cmds : call.cmds[i].kind = "check" => call.cmds[i].out.k # "ok"

(***************************************************************************)
(* C3: connect is idempotent on a live channel: when the session remembers *)
(* a descriptor with the argument's id and the liveness probe succeeds,    *)
(* connect returns success with status Connected, and the call runs no     *)
(* multiplexer spawn and no close operation.                               *)
(***************************************************************************)
C3_ConnectIdempotentOnLiveChannel ==
    (/\ call.op = "connect"
     /\ call.pre.conn # <<>>
     /\ call.pre.conn[1].id = call.arg[1].id
     /\ FirstProbeOk)
    => /\ call.ret = Ok(<<>>)
       /\ status = Connected
       /\ CountKind("master") = 0
       /\ CountKind("exit") = 0

C3_Witness ==
    /\ call.op = "connect"
    /\ call.pre.conn # <<>>
    /\ call.pre.conn[1].id = call.arg[1].id
    /\ FirstProbeOk
    /\ call.pre.status = Connected

(***************************************************************************)
(* C4: after connect returns, the status reflects the outcome: Connected   *)
(* after success, Failed(reason) with the returned error text after any    *)
(* error, and never Connecting.                                            *)
(***************************************************************************)
C4_StatusReflectsOutcome ==
    call.op = "connect"
    => /\ call.ret.ok => status = Connected
       /\ ~call.ret.ok => status = Failed(call.ret.val)
       /\ status # Connecting

(***************************************************************************)
(* C5: ensure_connected has exactly three outcomes: (1) the probe          *)
(* succeeds: Connected, success, only the probe was run; (2) the probe     *)
(* fails and a descriptor is remembered: the rest of the call is a connect *)
(* with the remembered descriptor, whose result is returned unchanged;     *)
(* (3) no descriptor is remembered: an error, no subprocess, status and    *)
(* descriptor unchanged.                                                   *)
(***************************************************************************)
C5_EnsureConnectedOutcomes ==
    call.op = "ensure_connected"
    => \/ /\ call.pre.conn # <<>>
          /\ FirstProbeOk
          /\ Len(call.cmds) = 1
          /\ status = Connected
          /\ call.ret = Ok(<<>>)
          /\ conn = call.pre.conn
       \/ /\ call.pre.conn # <<>>
          /\ call.cmds # <<>>
          /\ call.cmds[1].kind = "check"
          /\ call.cmds[1].out.k # "ok"
          /\ \E r \in ConnectBody(call.pre.conn, call.pre.conn[1]) :
                /\ r.conn = conn
                /\ r.status = status
                /\ r.ret = call.ret
                /\ r.cmds = Tail(call.cmds)
                /\ r.steps = call.trace
       \/ /\ call.pre.conn = <<>>
          /\ ~call.ret.ok
          /\ call.cmds = <<>>
          /\ status = call.pre.status
          /\ conn = call.pre.conn

\* a reconnect that failed and whose error came back to the caller
C5_Witness ==
    /\ call.op = "ensure_connected"
    /\ call.pre.conn # <<>>
    /\ CountKind("master") = 1
    /\ ~call.ret.ok
    /\ status.kind = "Failed"

(***************************************************************************)
(* C6: after a successful connect, when the liveness probe returns false,  *)
(* one ensure_connected runs exactly one multiplexer spawn, addressed to   *)
(* the remembered descriptor's user, host and port.                        *)
(***************************************************************************)
C6_ExactlyOneReconnect ==
    (/\ call.op = "ensure_connected"
     /\ call.pre.status = Connected
     /\ call.pre.conn # <<>>
     /\ AllProbesFailed)
    => /\ CountKind("master") = 1
       /\ \A i \in DOMAIN call.cmds :
            call.cmds[i].kind = "master" => AddressedTo(call.cmds[i].cmd, call.pre.conn[1])

C6_Witness ==
    /\ call.op = "ensure_connected"
    /\ call.pre.status = Connected
    /\ call.pre.conn = <<PasswordConn>>
    /\ AllProbesFailed
    /\ CountKind("master") = 1
    /\ status = Connected

(***************************************************************************)
(* C7: the sync lock is a single-slot, non-blocking mutual exclusion:      *)
(* try_acquire_sync_lock returns true exactly when the flag was clear and  *)
(* leaves it set; release_sync_lock clears it; and as long as callers      *)
(* release only after a successful acquire, at most one caller holds the   *)
(* lock, and the flag is set exactly while somebody holds it.              *)
(***************************************************************************)
C7_SyncLockMutualExclusion ==
    /\ call.op = "try_acquire_sync_lock"
         => /\ call.ret.val = ~call.pre.syncing
            /\ syncing
    /\ call.op = "release_sync_lock" => ~syncing
    /\ ~misuse => /\ Cardinality(holders) <= 1
                  /\ syncing <=> holders # {}

\* caller 2 was refused while caller 1 holds the lock
C7_Witness ==
    /\ call.op = "try_acquire_sync_lock"
    /\ call.arg = <<2>>
    /\ call.ret.val = FALSE
    /\ holders = {1}
    /\ ~misuse

(***************************************************************************)
(* C8: disconnect (and the destruction of the manager) always ends with no *)
(* remembered descriptor and status Disconnected, whatever the close       *)
(* operation did; a close operation is run only when a descriptor was      *)
(* remembered; afterwards create_ssh_command, create_scp_command and       *)
(* target_str fail and is_alive returns false.                             *)
(***************************************************************************)
C8_DisconnectAlwaysResets ==
    call.op \in {"disconnect", "drop"}
    => /\ conn = <<>>
       /\ status = Disconnected
       /\ call.cmds # <<>> => call.pre.conn # <<>>
       /\ \A i \in DOMAIN call.cmds : call.cmds[i].kind = "exit"
       /\ ~CreateSshCommandBody(conn).ok
       /\ ~CreateScpCommandBody(conn).ok
       /\ ~TargetStrBody(conn).ok
       /\ \A r \in IsAliveBody(conn) : ~r.ret

\* a disconnect whose close operation could not even be launched
C8_Witness ==
    /\ call.op = "disconnect"
    /\ call.pre.conn # <<>>
    /\ call.pre.status = Connected
    /\ Len(call.cmds) = 1
    /\ call.cmds[1].out.k = "nolaunch"

(***************************************************************************)
(* Helpers for the properties of the sync layer                            *)
(***************************************************************************)
ProtectedPaths == {<<>>, <<"/">>, <<"~">>, <<"$HOME">>}

\* the targets of the rm -rf commands of the call that reached the remote shell
IssuedRmTargets ==
    UNION {{call.cmds[i].cmd.script[j].path :
              j \in {k \in DOMAIN call.cmds[i].cmd.script :
                       call.cmds[i].cmd.script[k].verb = "rm -rf"}} :
           i \in {k \in DOMAIN call.cmds : call.cmds[k].out.k # "nolaunch"}}

\* the local source of a transfer exists
SourceExists(local_path, is_directory, is_pattern) ==
    LET expanded == ExpandLocalPath(local_path)
    IN IF is_pattern /\ ~is_directory
       THEN \E i \in DOMAIN LocalFiles : GlobMatch(expanded, LocalFiles[i])
       ELSE LocalExists(expanded)

\* the processed mappings whose transfer returned an error
FailedMappings == {i \in DOMAIN call.trace : ~call.trace[i].ret.ok}

\* entry describes a transfer of mapping m
Describes(entry, m) ==
    IF m.is_pattern /\ ~m.is_directory
    THEN \E i \in DOMAIN LocalFiles :
           /\ GlobMatch(ExpandLocalPath(m.local_path), LocalFiles[i])
           /\ entry = LocalFiles[i] \o <<" -> ">> \o m.remote_path \o <<"/">>
                        \o FileName(LocalFiles[i])
    ELSE entry = m.local_path \o <<" -> ">> \o m.remote_path

\* the names of the processed mappings that transferred nothing, in input order
NamesOfEmptyTransfers ==
    LET kept == SelectSeq(call.trace, LAMBDA t : t.ret.ok /\ t.ret.val = <<>>)
    IN [i \in DOMAIN kept |-> <<kept[i].mapping.name>>]

(***************************************************************************)
(* C1 as stated: for a remote path whose trimmed value is "", "/", "~" or  *)
(* "$HOME", sync_directory and remove_remote_path return an error and run  *)
(* no remote command, for any local path, existing or not.                 *)
(***************************************************************************)
C1_DangerousPathIsAlwaysAnError ==
    (/\ call.op \in {"sync_directory", "remove_remote_path"}
     /\ Trim(call.arg.remote) \in ProtectedPaths)
    => /\ ~call.ret.ok
       /\ call.cmds = <<>>

(***************************************************************************)
(* C1 as amended: for such a remote path no remote command is run;         *)
(* remove_remote_path returns an error; sync_directory returns an error    *)
(* when the expanded local path exists, and success with an empty list     *)
(* when it does not (the existence check comes before the guard).          *)
(***************************************************************************)
C1_DangerousPathNeverTouched ==
    (/\ call.op \in {"sync_directory", "remove_remote_path"}
     /\ Trim(call.arg.remote) \in ProtectedPaths)
    => /\ call.cmds = <<>>
       /\ call.op = "remove_remote_path" => ~call.ret.ok
       /\ call.op = "sync_directory"
            => IF LocalExists(ExpandLocalPath(call.arg.local))
               THEN ~call.ret.ok
               ELSE call.ret = Ok(<<>>)

\* an existing directory refused for the remote path " /" on a session with a descriptor
C1_Witness ==
    /\ call.op = "sync_directory"
    /\ call.arg.remote = <<" ", "/">>
    /\ LocalExists(ExpandLocalPath(call.arg.local))
    /\ conn # <<>>
    /\ ~call.ret.ok
    /\ call.cmds = <<>>

(***************************************************************************)
(* C2: no operation of the sync layer issues a recursive remote remove     *)
(* whose target is a protected path ("", "/", "~", "$HOME"; the home       *)
(* shorthand reaches the remote shell as "$HOME"): such a request is       *)
(* refused with an error, also by create_remote_symlink for its link path. *)
(***************************************************************************)
C2_NoRemoveOfProtectedPath ==
    /\ \A t \in IssuedRmTargets : Trim(t) \notin ProtectedPaths
    /\ (/\ call.op \in {"sync_directory", "remove_remote_path", "create_remote_symlink"}
        /\ Trim(call.arg.remote) \in ProtectedPaths
        /\ call.op = "sync_directory" => LocalExists(ExpandLocalPath(call.arg.local)))
       => ~call.ret.ok

(***************************************************************************)
(* C9 as stated: when the local path does not exist, or the pattern has no *)
(* match, sync_single_file, sync_directory and sync_pattern_files return   *)
(* success with an empty list and run no remote command, for every remote  *)
(* path and session state.                                                 *)
(***************************************************************************)
C9_MissingSourceIsEmptySuccess ==
    (/\ call.op \in {"sync_single_file", "sync_directory", "sync_pattern_files"}
     /\ ~SourceExists(call.arg.local, FALSE, call.op = "sync_pattern_files"))
    => /\ call.ret = Ok(<<>>)
       /\ call.cmds = <<>>

(***************************************************************************)
(* C9 as amended: the same, for sync_pattern_files provided the expanded   *)
(* pattern is a well-formed glob (a malformed pattern is an error).        *)
(***************************************************************************)
C9_MissingSourceOfValidPatternIsEmptySuccess ==
    (/\ call.op \in {"sync_single_file", "sync_directory", "sync_pattern_files"}
     /\ ~SourceExists(call.arg.local, FALSE, call.op = "sync_pattern_files")
     /\ call.op = "sync_pattern_files" => GlobValid(ExpandLocalPath(call.arg.local)))
    => /\ call.ret = Ok(<<>>)
       /\ call.cmds = <<>>

\* a pattern without matches, a protected remote path, a session without descriptor
C9_Witness ==
    /\ call.op = "sync_pattern_files"
    /\ call.arg.local = <<"/", "h", "/", "*", ".y">>
    /\ call.arg.remote = <<"/">>
    /\ conn = <<>>
    /\ call.ret = Ok(<<>>)

(***************************************************************************)
(* C10: when exactly one of the processed mappings fails, success is       *)
(* false, errors has exactly the entry "<name>: <message>" of that         *)
(* mapping, synced_files holds a description for every other mapping whose *)
(* local source exists, and the three lists follow the input order.        *)
(***************************************************************************)
C10_ExactlyOneFailure ==
    (/\ call.op = "sync_mappings"
     /\ Cardinality(FailedMappings) = 1)
    => LET res == call.ret.val
           failed == CHOOSE i \in FailedMappings : TRUE
       IN /\ res.success = FALSE
          /\ res.errors = << <<call.trace[failed].mapping.name>> \o <<": ">>
                              \o call.trace[failed].ret.val >>
          /\ \A i \in DOMAIN call.trace :
               (/\ call.trace[i].ret.ok
                /\ SourceExists(call.trace[i].mapping.local_path,
                                call.trace[i].mapping.is_directory,
                                call.trace[i].mapping.is_pattern))
               => \E k \in DOMAIN res.synced_files :
                    Describes(res.synced_files[k], call.trace[i].mapping)
          /\ res.synced_files
               = Flatten([i \in DOMAIN call.trace |->
                            IF call.trace[i].ret.ok THEN call.trace[i].ret.val ELSE <<>>])
          /\ res.skipped_files = NamesOfEmptyTransfers

(***************************************************************************)
(* Helpers for the properties of sync_mappings                             *)
(***************************************************************************)
\* sub occurs in text as a contiguous run of tokens
Contains(text, sub) ==
    \E i \in 0..(Len(text) - Len(sub)) : SubSeq(text, i + 1, i + Len(sub)) = sub

\* the command works on the remote path: in its script, or as an scp destination
Mentions(cmd, remote_path) ==
    \/ \E j \in DOMAIN cmd.script : cmd.script[j].path = ExpandRemoteHome(remote_path)
    \/ \E j \in DOMAIN cmd.args : Contains(cmd.args[j], <<":">> \o remote_path)

\* the mapping is enabled and of the module asked for
Selected(m, module_filter) ==
    m.enabled /\ (module_filter = <<>> \/ module_filter = <<m.module>>)

\* the entry of the trace was put into synced_files, skipped_files, errors
InSynced(t) == t.ret.ok /\ t.ret.val # <<>>

InSkipped(t) == t.ret.ok /\ t.ret.val = <<>>

InErrors(t) == ~t.ret.ok

(***************************************************************************)
(* C11: sync_mappings processes exactly the enabled mappings of the module *)
(* asked for, in input order; a mapping left out causes no remote command  *)
(* and is in no result list; every processed mapping is in exactly one of  *)
(* synced/skipped/errors; an error does not stop the later mappings; and   *)
(* success is true exactly when errors is empty.                           *)
(***************************************************************************)
C11_ProcessesExactlyTheSelectedMappings ==
    call.op = "sync_mappings"
    => LET ms == call.arg.mappings
           f == call.arg.module_filter
           res == call.ret.val
           chosen == {i \in DOMAIN ms : Selected(ms[i], f)}
           left_out == {ms[i] : i \in DOMAIN ms \ chosen} \ {ms[i] : i \in chosen}
       IN /\ Len(call.trace) = Cardinality(chosen)
          /\ \A i \in DOMAIN call.trace :
               /\ Selected(call.trace[i].mapping, f)
               /\ \E j \in chosen :
                    /\ ms[j] = call.trace[i].mapping
                    /\ Cardinality({k \in chosen : k < j}) = i - 1
               /\ [ret |-> call.trace[i].ret, cmds |-> call.trace[i].cmds]
                    \in SyncFileMappingBody(call.trace[i].mapping, conn)
          /\ call.cmds = Flatten([i \in DOMAIN call.trace |-> call.trace[i].cmds])
          /\ \A m \in left_out :
               /\ \A i \in DOMAIN call.cmds : ~Mentions(call.cmds[i].cmd, m.remote_path)
               /\ \A i \in DOMAIN res.skipped_files : res.skipped_files[i] # <<m.name>>
               /\ \A i \in DOMAIN res.errors : Head(res.errors[i]) # m.name
               /\ \A i \in DOMAIN res.synced_files : ~Describes(res.synced_files[i], m)
          /\ res.synced_files
               = Flatten([i \in DOMAIN call.trace |->
                            IF InSynced(call.trace[i]) THEN call.trace[i].ret.val ELSE <<>>])
          /\ res.skipped_files
               = Flatten([i \in DOMAIN call.trace |->
                            IF InSkipped(call.trace[i])
                            THEN << <<call.trace[i].mapping.name>> >> ELSE <<>>])
          /\ res.errors
               = Flatten([i \in DOMAIN call.trace |->
                            IF InErrors(call.trace[i])
                            THEN << <<call.trace[i].mapping.name>> \o <<": ">>
                                      \o call.trace[i].ret.val >>
                            ELSE <<>>])
          /\ res.success <=> (res.errors = <<>>)

\* the first mapping fails and the one after it is still transferred
C11_Witness ==
    /\ call.op = "sync_mappings"
    /\ call.arg.module_filter = <<"m1">>
    /\ Len(call.trace) = 2
    /\ InErrors(call.trace[1])
    /\ InSynced(call.trace[2])
    /\ call.ret.val.success = FALSE

(***************************************************************************)
(* C12: skipped_files holds exactly the names of the processed mappings    *)
(* whose local source did not exist; a mapping whose local source exists   *)
(* (a pattern with a matching file included) is never in skipped_files,    *)
(* whatever became of its remote copies.                                   *)
(***************************************************************************)
C12_SkippedAreExactlyTheMissingSources ==
    call.op = "sync_mappings"
    => call.ret.val.skipped_files
         = Flatten([i \in DOMAIN call.trace |->
                      IF ~SourceExists(call.trace[i].mapping.local_path,
                                       call.trace[i].mapping.is_directory,
                                       call.trace[i].mapping.is_pattern)
                      THEN << <<call.trace[i].mapping.name>> >> ELSE <<>>])

(***************************************************************************)
(* Helpers for the properties of the remote file operations                *)
(***************************************************************************)
\* the remote file a path of the sync layer names
RemoteFileOf(path) == ShellExpand(ExpandRemoteHome(path))

SingleTargetOps ==
    {"sync_single_file", "sync_directory", "write_remote_file", "create_remote_symlink",
     "remove_remote_path"}

(***************************************************************************)
(* C13: single-target operations are all-or-nothing: when sync_single_file,*)
(* sync_directory, write_remote_file, create_remote_symlink or             *)
(* remove_remote_path returns an error, the remote state is the same as    *)
(* before the call.                                                        *)
(***************************************************************************)
C13_FailedOperationLeavesRemoteUnchanged ==
    (call.op \in SingleTargetOps /\ ~call.ret.ok) => remote = call.pre.remote

(***************************************************************************)
(* C14: round trip: after write_remote_file(p, c) returned success, and    *)
(* with no remote change since, a successful read_remote_file(p) returns   *)
(* exactly c, and both hand the same file name to the remote shell.        *)
(***************************************************************************)
C14_WriteThenReadRoundTrip ==
    (/\ call.op = "read_remote_file"
     /\ call.ret.ok
     /\ written # <<>>
     /\ written[1].path = call.arg.remote)
    => /\ call.ret.val = written[1].content
       /\ call.cmds[1].cmd.script[1].path = written[1].file

\* "hello\n" written to ~/c/x and read back
C14_Witness ==
    /\ call.op = "read_remote_file"
    /\ call.arg.remote = <<"~", "/", "c", "/", "x">>
    /\ written # <<>>
    /\ written[1].path = call.arg.remote
    /\ written[1].content = <<"hello", "\n">>
    /\ call.ret = Ok(<<"hello", "\n">>)

(***************************************************************************)
(* C15: read_remote_file returns the empty string when the remote file     *)
(* does not exist and the file's contents when it exists; it returns an    *)
(* error only when no descriptor is set, the remote shell cannot be        *)
(* launched, or the remote command exits non-zero.                         *)
(***************************************************************************)
C15_ReadRemoteFileResults ==
    call.op = "read_remote_file"
    => LET q == Deref(call.pre.remote, RemoteFileOf(call.arg.remote))
       IN /\ (call.ret.ok /\ KindAt(call.pre.remote, q) = "none") => call.ret.val = <<>>
          /\ (call.ret.ok /\ KindAt(call.pre.remote, q) = "file")
               => call.ret.val = call.pre.remote[q].v
          /\ ~call.ret.ok
               => \/ call.pre.conn = <<>>
                  \/ call.cmds # <<>> /\ call.cmds[1].out.k \in {"nolaunch", "exit"}

C17_PatternFilesPartialFailure ==
    call.op = "sync_pattern_files"
    => LET expanded == ExpandLocalPath(call.arg.local)
           files == Glob(expanded)
           copies == SelectSeq(call.cmds, LAMBDA c : c.kind = "scp")
           described(f) == f \o <<" -> ">> \o call.arg.remote \o <<"/">> \o FileName(f)
       IN /\ ~GlobValid(expanded) => (~call.ret.ok /\ call.cmds = <<>>)
          /\ (GlobValid(expanded) /\ call.pre.conn # <<>>)
             => /\ call.ret.ok
                /\ Len(copies) = Len(files)
                /\ \A i \in DOMAIN copies :
                     copies[i].cmd.args[Len(copies[i].cmd.args) - 1] = files[i]
                /\ call.ret.val
                     = Flatten([i \in DOMAIN files |->
                                  IF copies[i].out.k = "ok"
                                  THEN <<described(files[i])>> ELSE <<>>])

\* two matches: the remote mkdir fails, the first copy fails, the second succeeds
C17_Witness ==
    /\ call.op = "sync_pattern_files"
    /\ call.arg.local = <<"/", "h", "/", "*", ".x">>
    /\ call.pre.conn # <<>>
    /\ Len(call.cmds) = 3
    /\ call.cmds[1].out.k = "exit"
    /\ call.cmds[2].out.k = "exit"
    /\ call.cmds[3].out.k = "ok"
    /\ call.ret.ok
    /\ Len(call.ret.val) = 1

(***************************************************************************)
(* Helpers for the properties of the commands built                        *)
(***************************************************************************)
\* the argument list has the option flag followed by value
HasOption(cmd, flag, value) ==
    \E i \in 1..(Len(cmd.args) - 1) : cmd.args[i] = <<flag>> /\ cmd.args[i + 1] = <<value>>

\* some argument holds the password of some descriptor
PasswordInArgs(cmd) ==
    \E d \in Descriptors, j \in DOMAIN cmd.args :
       d.password # "" /\ Contains(cmd.args[j], <<d.password>>)

\* the command has no password and no identity file, in arguments or environment
Secretless(cmd) ==
    /\ cmd.env = <<>>
    /\ ~PasswordInArgs(cmd)
    /\ \A j \in DOMAIN cmd.args :
         /\ cmd.args[j] # <<"-i">>
         /\ \A d \in Descriptors :
              d.private_key_path # <<>> => ~Contains(cmd.args[j], d.private_key_path)

\* the descriptor a master connection of the call is spawned for
SpawnedFor == IF call.op = "connect" THEN call.arg[1] ELSE call.pre.conn[1]

\* the commands the factory methods returned in the call
CommandsBuilt ==
    IF call.op \in {"create_ssh_command", "create_scp_command"} /\ call.ret.ok
    THEN {call.ret.val} ELSE {}

(***************************************************************************)
(* C18: with auth_method password and a non-empty password, connect hands  *)
(* the password to the spawned process through its environment only, never *)
(* in the argument list; and no command of create_ssh_command,             *)
(* create_scp_command, is_alive or disconnect carries the password or an   *)
(* identity file in its arguments or environment.                          *)
(***************************************************************************)
C18_PasswordOnlyInEnvironment ==
    /\ \A i \in DOMAIN call.cmds :
         /\ ~PasswordInArgs(call.cmds[i].cmd)
         /\ call.cmds[i].kind = "master"
              => (call.cmds[i].cmd.env
                    = IF SpawnedFor.auth_method = "password" /\ SpawnedFor.password # ""
                      THEN << <<"SSHPASS", SpawnedFor.password>> >> ELSE <<>>)
         /\ call.cmds[i].kind \in {"check", "exit"} => Secretless(call.cmds[i].cmd)
    /\ \A cmd \in CommandsBuilt : Secretless(cmd)

\* a master connection spawned through sshpass, with the password in SSHPASS
C18_Witness ==
    /\ call.op = "connect"
    /\ call.arg = <<PasswordConn>>
    /\ \E i \in DOMAIN call.cmds :
         /\ call.cmds[i].kind = "master"
         /\ call.cmds[i].cmd.prog = "sshpass"
         /\ call.cmds[i].cmd.env = << <<"SSHPASS", "pw">> >>

(***************************************************************************)
(* C19: create_ssh_command and create_scp_command fail exactly when no     *)
(* descriptor is set; a command they return is addressed to the            *)
(* descriptor's port (and user@host for the shell command), names the      *)
(* control path, sets ControlMaster=no, a connect timeout and the          *)
(* accept-new host-key policy; building a command changes no session       *)
(* state.                                                                  *)
(***************************************************************************)
C19_CommandFactory ==
    call.op \in {"create_ssh_command", "create_scp_command"}
    => /\ call.ret.ok <=> call.pre.conn # <<>>
       /\ conn = call.pre.conn
       /\ status = call.pre.status
       /\ syncing = call.pre.syncing
       /\ \A cmd \in CommandsBuilt :
            /\ HasOption(cmd, "-o", "ControlMaster=no")
            /\ HasOption(cmd, "-o", "ConnectTimeout=10")
            /\ HasOption(cmd, "-o", "StrictHostKeyChecking=accept-new")
            /\ call.op = "create_ssh_command"
                 => /\ cmd.prog = "ssh"
                    /\ HasOption(cmd, "-S", ControlPath)
                    /\ HasOption(cmd, "-p", ToString(conn[1].port))
                    /\ cmd.args[Len(cmd.args)] = <<Target(conn[1])>>
            /\ call.op = "create_scp_command"
                 => /\ cmd.prog = "scp"
                    /\ HasOption(cmd, "-o", "ControlPath=" \o ControlPath)
                    /\ HasOption(cmd, "-P", ToString(conn[1].port))

\* a copy command built for a connected session of the key descriptor
C19_Witness ==
    /\ call.op = "create_scp_command"
    /\ call.ret.ok
    /\ conn = <<KeyConn>>
    /\ status = Connected
    /\ HasOption(call.ret.val, "-P", "2200")

(***************************************************************************)
(* C20: every subprocess invocation built by the session manager carries a *)
(* connect timeout option: the multiplexer spawn of connect, the liveness  *)
(* probe of is_alive, the close operation of disconnect, and the commands  *)
(* of create_ssh_command and create_scp_command.                           *)
(***************************************************************************)
C20_EveryCommandHasConnectTimeout ==
    /\ \A i \in DOMAIN call.cmds : HasOption(call.cmds[i].cmd, "-o", "ConnectTimeout=10")
    /\ \A cmd \in CommandsBuilt : HasOption(cmd, "-o", "ConnectTimeout=10")

(***************************************************************************)
(* C21: is_alive always returns a boolean: without a remembered descriptor *)
(* it returns false and runs no subprocess; with a descriptor it runs the  *)
(* check control operation once and returns true exactly when that exits   *)
(* successfully (false when it exits unsuccessfully or cannot be           *)
(* launched); it changes neither status nor descriptor.                    *)
(***************************************************************************)
C21_IsAliveIsABooleanProbe ==
    call.op = "is_alive"
    => /\ call.ret.ok
       /\ call.ret.val \in BOOLEAN
       /\ call.pre.conn = <<>> => (call.ret.val = FALSE /\ call.cmds = <<>>)
       /\ call.pre.conn # <<>>
            => /\ Len(call.cmds) = 1
               /\ call.cmds[1].cmd = CheckCommand(call.pre.conn[1])
               /\ call.ret.val = (call.cmds[1].out.k = "ok")
       /\ conn = call.pre.conn
       /\ status = call.pre.status

\* a probe that could not be launched, on a session that believes it is connected
C21_Witness ==
    /\ call.op = "is_alive"
    /\ call.pre.conn # <<>>
    /\ call.pre.status = Connected
    /\ call.cmds[1].out.k = "nolaunch"
    /\ call.ret.val = FALSE
    /\ status = Connected

(***************************************************************************)
(* C22: every operation of the sync layer (the transfers, sync_mappings,   *)
(* and the remote read, write, symlink, remove, list and symlink-check     *)
(* operations) leaves the session's status, descriptor and                 *)
(* sync-in-progress flag as they were, whether it succeeds or fails,       *)
(* including when a command fails because the channel is severed.  (The    *)
(* control-channel address is fixed at construction.)                      *)
(***************************************************************************)
SyncLayerOps ==
    {"sync_single_file", "sync_directory", "sync_pattern_files", "sync_file_mapping",
     "sync_mappings", "read_remote_file", "write_remote_file", "create_remote_symlink",
     "remove_remote_path", "list_remote_dir", "check_remote_symlink_exists"}

C22_SyncLayerLeavesSessionAlone ==
    call.op \in SyncLayerOps
    => /\ conn = call.pre.conn
       /\ status = call.pre.status
       /\ syncing = call.pre.syncing

\* a write that failed on a severed channel, on a session that is Connected and locked
C22_Witness ==
    /\ call.op = "write_remote_file"
    /\ ~call.ret.ok
    /\ call.cmds # <<>>
    /\ call.cmds[1].out.k = "exit"
    /\ status = Connected
    /\ syncing

(***************************************************************************)
(* C23: when connect is called while a descriptor with another id is       *)
(* remembered, a close control operation addressed to the old target's     *)
(* user, host and port is run before the multiplexer for the new target is *)
(* spawned; a final status of Connected or Failed was preceded by          *)
(* Connecting; and the old descriptor is no longer remembered afterwards.  *)
(***************************************************************************)
C23_TeardownBeforeSpawn ==
    (/\ call.op = "connect"
     /\ call.pre.conn # <<>>
     /\ call.pre.conn[1].id # call.arg[1].id)
    => /\ Len(call.cmds) = 2
       /\ call.cmds[1].kind = "exit"
       /\ AddressedTo(call.cmds[1].cmd, call.pre.conn[1])
       /\ call.cmds[2].kind = "master"
       /\ AddressedTo(call.cmds[2].cmd, call.arg[1])
       /\ call.trace # <<>>
       /\ status = call.trace[Len(call.trace)]
       /\ status.kind \in {"Connected", "Failed"}
            => \E i \in 1..(Len(call.trace) - 1) :
                  /\ call.trace[i] = Connecting
                  /\ \A j \in 1..i : call.trace[j].kind \notin {"Connected", "Failed"}
       /\ conn # call.pre.conn
       /\ conn = call.arg

\* from a connected password target to the key target: the close operation fails
\* and the new multiplexer is refused
C23_Witness ==
    /\ call.op = "connect"
    /\ call.pre.conn = <<PasswordConn>>
    /\ call.pre.status = Connected
    /\ call.arg = <<KeyConn>>
    /\ call.cmds[1].out.k = "exit"
    /\ status.kind = "Failed"
    /\ call.trace = <<Disconnected, Connecting, status>>

(***************************************************************************)
(* C24: transport failure is recoverable: whenever a descriptor is         *)
(* remembered, an ensure_connected during which the multiplexer spawn      *)
(* succeeds returns success with status Connected, whatever the status was *)
(* before (Failed, Connecting, or Connected with a dead channel); and with *)
(* repeated ensure_connected calls under a transport that eventually works *)
(* a session that remembers a descriptor eventually is Connected, unless   *)
(* it is disconnected or destroyed first.                                  *)
(***************************************************************************)
SpawnSucceeded == \E i \in DOMAIN call.cmds :
                     call.cmds[i].kind = "master" /\ call.cmds[i].out.k = "ok"

C24_Recoverable ==
    /\ []((call.op = "ensure_connected" /\ call.pre.conn # <<>> /\ SpawnSucceeded)
            => (status = Connected /\ call.ret.ok /\ conn = call.pre.conn))
    /\ ((live /\ conn # <<>>) ~> (status = Connected \/ conn = <<>> \/ ~live))

\* a Failed session whose channel is dead, brought back by one ensure_connected
C24_Witness ==
    /\ call.op = "ensure_connected"
    /\ call.pre.status.kind = "Failed"
    /\ AllProbesFailed
    /\ SpawnSucceeded
    /\ status = Connected

(***************************************************************************)
(* C25: in the command that establishes the multiplexer, for auth_method   *)
(* key the identity-file option is present exactly when key resolution     *)
(* yields a non-empty path (and names that path), and batch mode is forced *)
(* exactly when an identity file is passed and the passphrase is empty;    *)
(* for auth_method password neither option is added.  In every case the    *)
(* command fixes the port, a connect timeout and the accept-new host-key   *)
(* mode.                                                                   *)
(***************************************************************************)
\* the key path the call resolved: the user's path, the materialised file, or
\* nothing when materialising failed
ResolvedKeyPath(d) ==
    IF Materialises(d)
    THEN IF Trim(d.private_key_content) \in call.pre.keys
         THEN {KeyFilePath(d.private_key_content)}
         ELSE IF Trim(d.private_key_content) \in keys
              THEN {<<>>, KeyFilePath(d.private_key_content)}
              ELSE {<<>>}
    ELSE {d.private_key_path}

HasFlag(cmd, flag) == \E i \in DOMAIN cmd.args : cmd.args[i] = <<flag>>

C25_IdentityFileAndBatchMode ==
    call.op = "connect"
    => \A i \in DOMAIN call.cmds :
         call.cmds[i].kind = "master"
         => LET cmd == call.cmds[i].cmd
                d == call.arg[1]
            IN /\ HasOption(cmd, "-p", ToString(d.port))
               /\ HasOption(cmd, "-o", "ConnectTimeout=10")
               /\ HasOption(cmd, "-o", "StrictHostKeyChecking=accept-new")
               /\ d.auth_method = "password"
                    => /\ ~HasFlag(cmd, "-i")
                       /\ ~HasOption(cmd, "-o", "BatchMode=yes")
               /\ d.auth_method = "key"
                    => \E key_path \in ResolvedKeyPath(d) :
                         /\ HasFlag(cmd, "-i") <=> key_path # <<>>
                         /\ key_path # <<>>
                              => \E j \in 1..(Len(cmd.args) - 1) :
                                    cmd.args[j] = <<"-i">> /\ cmd.args[j + 1] = key_path
                         /\ HasOption(cmd, "-o", "BatchMode=yes")
                              <=> (key_path # <<>> /\ d.passphrase = "")

\* a pasted key with a passphrase: the materialised file is the identity file,
\* and batch mode is not forced
C25_Witness ==
    /\ call.op = "connect"
    /\ call.arg[1].auth_method = "key"
    /\ Materialises(call.arg[1])
    /\ call.arg[1].passphrase = "pp"
    /\ call.cmds # <<>>
    /\ HasFlag(call.cmds[Len(call.cmds)].cmd, "-i")
    /\ ~HasOption(call.cmds[Len(call.cmds)].cmd, "-o", "BatchMode=yes")

(***************************************************************************)
(* C26: resolve_key_path gives pasted key content priority over a key      *)
(* path.  When private_key_content is non-blank and begins, after          *)
(* trimming, with the PEM marker, the result is the path of the            *)
(* materialised key file whatever private_key_path is (or the error of     *)
(* materialising it, never the user's path); otherwise the user's          *)
(* private_key_path is returned unchanged and no file is created.          *)
(***************************************************************************)
C26_ContentBeforePath ==
    call.op = "resolve_key_path"
    => LET path == call.arg[1]
           content == call.arg[2]
       IN IF Trim(content) # <<>> /\ Head(Trim(content)) = "-----BEGIN"
          THEN /\ call.ret.ok
                    => /\ call.ret.val = KeyFilePath(content)
                       /\ Trim(content) \in keys
               /\ ~call.ret.ok => call.ret.val # path
          ELSE /\ call.ret = Ok(path)
               /\ keys = call.pre.keys
               /\ call.cmds = <<>>

\* a pasted PEM key next to a key path: the file is written and its path is
\* the result
C26_Witness ==
    /\ call.op = "resolve_key_path"
    /\ call.arg[1] = <<"/", "k">>
    /\ IsPrivateKeyContent(call.arg[2])
    /\ call.ret = Ok(KeyFilePath(call.arg[2]))
    /\ call.cmds # <<>>
    /\ Trim(call.arg[2]) \notin call.pre.keys

(***************************************************************************)
(* C27: key-file materialisation is deterministic and idempotent.  After a *)
(* successful ensure_key_file(c), whatever ensure_key_file and             *)
(* remove_key_file calls came before, there is a file at the returned      *)
(* path; a call with any content equal to c after trimming then returns    *)
(* the same path and writes nothing; and a call that found the file        *)
(* already there returned its path without writing it again.               *)
(***************************************************************************)
C27_EnsureKeyFileIdempotent ==
    call.op = "ensure_key_file"
    => LET c == call.arg[1]
       IN /\ call.ret.ok
               => /\ Trim(c) \in keys
                  /\ \A c2 \in KeyContents :
                       Trim(c2) = Trim(c)
                       => \A r \in EnsureKeyFileBody(c2, keys) :
                            r.ret = call.ret /\ r.cmds = <<>> /\ r.keys = keys
          /\ Trim(c) \in call.pre.keys
               => /\ call.ret = Ok(KeyFilePath(c))
                  /\ call.cmds = <<>>
                  /\ keys = call.pre.keys

\* the key is ensured again under another spelling while its file is there
C27_Witness ==
    /\ call.op = "ensure_key_file"
    /\ call.arg[1] = <<" ", "-----BEGIN", "K1", "\n">>
    /\ <<"-----BEGIN", "K1">> \in call.pre.keys
    /\ call.ret.ok
    /\ call.cmds = <<>>

(***************************************************************************)
(* C28: build_models_url normalises the base URL before it appends the     *)
(* models path: the result ends in /v1/models for OpenAI-compatible,       *)
(* Anthropic-native and unknown-SDK native requests and in /v1beta/models  *)
(* for Google-native requests, with ?key=<api key> appended exactly when a *)
(* non-empty API key is given, and it never contains a version segment     *)
(* twice in a row, such as /v1/v1/models.                                  *)
(***************************************************************************)
IsGoogleNative(arg) == arg[2] = "Native" /\ arg[3] = <<"@ai-sdk/google">>

\* the path and the query the request is to end in
ModelsSuffix(arg) ==
    IF IsGoogleNative(arg)
    THEN <<"/v1beta", "/models">>
         \o (IF arg[4] # <<>> /\ arg[4][1] # "" THEN <<"?key=", arg[4][1]>> ELSE <<>>)
    ELSE <<"/v1", "/models">>

EndsWithSuffix(url, suffix) ==
    Len(url) >= Len(suffix) /\ SubSeq(url, Len(url) - Len(suffix) + 1, Len(url)) = suffix

DuplicatedVersion(url) ==
    \E i \in 1..(Len(url) - 1) : url[i] \in {"/v1", "/v1beta"} /\ url[i + 1] = url[i]

C28_ModelsUrlNormalised ==
    call.op = "build_models_url"
    => /\ EndsWithSuffix(call.ret.val, ModelsSuffix(call.arg))
       /\ ~DuplicatedVersion(call.ret.val)

(***************************************************************************)
(* C29: between calls, in every state reachable by new, connect,           *)
(* ensure_connected, is_alive and disconnect with arbitrary subprocess     *)
(* outcomes, the remembered descriptor is absent exactly when the status   *)
(* is Disconnected; so a status of Connected or Failed implies that a      *)
(* descriptor is remembered.                                               *)
(***************************************************************************)
C29_DescriptorIffNotDisconnected ==
    /\ conn = <<>> <=> status = Disconnected
    /\ status.kind \in {"Connected", "Failed"} => conn # <<>>

\* a connect whose master exited with an error: Failed, and the descriptor is kept
C29_Witness ==
    /\ call.op = "connect"
    /\ ~call.ret.ok
    /\ status.kind = "Failed"
    /\ conn = call.arg

(***************************************************************************)
(* C30: after connect(d) returns success the remembered descriptor equals  *)
(* d in every field, so that the commands built afterwards are addressed   *)
(* to d's user, host and port; also when the session remembered a          *)
(* descriptor with the same id but other field values before.              *)
(***************************************************************************)
C30_ConnectRemembersItsArgument ==
    (call.op = "connect" /\ call.ret.ok)
    => /\ conn = call.arg
       /\ TargetStrBody(conn) = Ok(<<Target(call.arg[1])>>)
       /\ CreateSshCommandBody(conn) = CreateSshCommandBody(call.arg)
       /\ CreateScpCommandBody(conn) = CreateScpCommandBody(call.arg)
       /\ IsAliveBody(conn) = IsAliveBody(call.arg)
       /\ DisconnectBody(conn) = DisconnectBody(call.arg)

(***************************************************************************)
(* C31: when connect(d) returns an error the session remembers d, not the  *)
(* descriptor it remembered before and not none, so a later                *)
(* ensure_connected addresses every command it runs to d; a failed connect *)
(* to a new target has discarded the descriptor of the previous target.    *)
(***************************************************************************)
C31_FailedConnectRemembersArgument ==
    (call.op = "connect" /\ ~call.ret.ok)
    => /\ conn = call.arg
       /\ \A r \in EnsureConnectedBody(conn, status) :
             /\ r.cmds # <<>>
             /\ r.conn = call.arg
             /\ \A i \in DOMAIN r.cmds :
                   r.cmds[i].cmd.args[Len(r.cmds[i].cmd.args)] = <<Target(call.arg[1])>>

\* a connect to another target failed while a descriptor was remembered
C31_Witness ==
    /\ call.op = "connect"
    /\ ~call.ret.ok
    /\ call.pre.conn # <<>>
    /\ call.pre.conn[1].id # call.arg[1].id
    /\ conn = call.arg

(***************************************************************************)
(* C32: only the holder can free the sync lock.  A release_sync_lock by a  *)
(* caller that does not hold the lock leaves it held by its holder, so     *)
(* while a caller holds the lock the flag is set and no second caller      *)
(* acquires it.                                                            *)
(***************************************************************************)
C32_OnlyHolderFreesLock ==
    /\ holders # {} => syncing
    /\ Cardinality(holders) <= 1

(***************************************************************************)
(* C33: the sync-in-progress flag is independent of the connection         *)
(* lifecycle.  connect, ensure_connected, is_alive and disconnect never    *)
(* change it, so a lock held across a disconnect or a reconnect stays      *)
(* held; and try_acquire_sync_lock succeeds exactly when the flag was      *)
(* clear, whatever the status, and leaves it set.                          *)
(***************************************************************************)
LifecycleOps == {"connect", "ensure_connected", "is_alive", "disconnect"}

C33_SyncFlagIndependentOfLifecycle ==
    /\ call.op \in LifecycleOps => syncing = call.pre.syncing
    /\ call.op = "try_acquire_sync_lock"
         => /\ call.ret = Ok(~call.pre.syncing)
            /\ syncing
            /\ status = call.pre.status /\ conn = call.pre.conn

\* the lock is held across a disconnect of a session that had a descriptor
C33_Witness ==
    /\ call.op = "disconnect"
    /\ call.pre.conn # <<>>
    /\ call.pre.syncing
    /\ syncing
    /\ status = Disconnected

\* the lock is acquired on a session that failed to connect
C33_AcquiredWhileFailed ==
    /\ call.op = "try_acquire_sync_lock"
    /\ call.ret = Ok(TRUE)
    /\ status.kind = "Failed"

(***************************************************************************)
(* C34: sync_directory and remove_remote_path never issue a recursive      *)
(* remove whose target is the remote root or the remote home directory,    *)
(* for every spelling of the remote path that denotes root or home, also   *)
(* one with a trailing slash or repeated slashes ("//", "~/", "$HOME/").   *)
(***************************************************************************)
\* the remote shell resolves the quoted target to / or to the home directory:
\* nothing but slashes, or $HOME with nothing but slashes around it
DenotesRootOrHome(target) ==
    /\ target # <<>>
    /\ SelectSeq(target, LAMBDA t : t # "/") \in {<<>>, <<"$HOME">>}

C34_NoRemoveOfRootOrHome ==
    call.op \in {"sync_directory", "remove_remote_path"}
    => \A t \in IssuedRmTargets : ~DenotesRootOrHome(t)

(***************************************************************************)
(* C35: a transfer issues its remote commands in a fixed order, each at    *)
(* most once, with no retry and no reconnect.  sync_single_file runs the   *)
(* creation of the parent directory and, only if that succeeded, one copy; *)
(* sync_directory runs the guard first, then one command that creates the  *)
(* parent and removes the destination, and only if that succeeded one      *)
(* recursive copy.  When the preparatory command fails or cannot be        *)
(* launched no copy is issued and an error carrying the trimmed error text *)
(* is returned.                                                            *)
(***************************************************************************)
\* the script of the preparatory command of the call
PrepareScript ==
    LET remote_target == ExpandRemoteHome(call.arg.remote)
    IN IF call.op = "sync_directory"
       THEN <<MkdirParent(remote_target), RmRf(remote_target)>>
       ELSE <<MkdirParent(remote_target)>>

C35_TransferCommandOrder ==
    call.op \in {"sync_single_file", "sync_directory"}
    => /\ Len(call.cmds) <= 2
       /\ conn = call.pre.conn /\ status = call.pre.status
       /\ (call.op = "sync_directory" /\ IsDangerousPath(call.arg.remote)) => call.cmds = <<>>
       /\ call.cmds # <<>>
            => /\ call.cmds[1].kind = "ssh"
               /\ call.cmds[1].cmd.script = PrepareScript
               /\ call.cmds[1].out.k = "ok" <=> Len(call.cmds) = 2
               /\ call.cmds[1].out.k # "ok"
                    => /\ ~call.ret.ok
                       /\ EndsWithSuffix(call.ret.val, Trim(call.cmds[1].out.text))
       /\ Len(call.cmds) = 2
            => /\ call.cmds[2].kind = "scp"
               /\ call.cmds[2].cmd.script = <<>>
               /\ HasFlag(call.cmds[2].cmd, "-r") <=> call.op = "sync_directory"
               /\ call.ret.ok <=> call.cmds[2].out.k = "ok"

\* the preparation of a directory transfer exited with an error: no copy
C35_Witness ==
    /\ call.op = "sync_directory"
    /\ Len(call.cmds) = 1
    /\ call.cmds[1].out.k = "exit"
    /\ call.cmds[1].out.text # Trim(call.cmds[1].out.text)
    /\ ~call.ret.ok

(***************************************************************************)
(* C36: sync_file_mapping dispatches on the flags, the directory flag      *)
(* first: is_directory runs sync_directory (also when is_pattern is set    *)
(* too), otherwise is_pattern runs sync_pattern_files, otherwise           *)
(* sync_single_file runs; exactly one of the three runs and its result is  *)
(* returned unchanged.                                                     *)
(***************************************************************************)
\* the results and commands of the one function the flags select
Dispatched(m, cn) ==
    CASE m.is_directory -> SyncDirectoryBody(m.local_path, m.remote_path, cn)
      [] ~m.is_directory /\ m.is_pattern ->
            SyncPatternFilesBody(m.local_path, m.remote_path, cn)
      [] OTHER -> SyncSingleFileBody(m.local_path, m.remote_path, cn)

C36_DispatchDirectoryFirst ==
    call.op = "sync_file_mapping"
    => /\ \E r \in Dispatched(call.arg.mapping, call.pre.conn) :
             r.ret = call.ret /\ r.cmds = call.cmds
       /\ (call.arg.mapping.is_directory /\ call.cmds # <<>>)
             => /\ call.cmds[1].cmd.script
                     = <<MkdirParent(ExpandRemoteHome(call.arg.mapping.remote_path)),
                         RmRf(ExpandRemoteHome(call.arg.mapping.remote_path))>>
                /\ \A i \in DOMAIN call.cmds :
                      call.cmds[i].kind = "scp" => HasFlag(call.cmds[i].cmd, "-r")
       /\ (~call.arg.mapping.is_directory /\ call.cmds # <<>>)
             => \A i \in DOMAIN call.cmds :
                   /\ call.cmds[i].kind = "scp" => ~HasFlag(call.cmds[i].cmd, "-r")
                   /\ \A j \in DOMAIN call.cmds[i].cmd.script :
                         call.cmds[i].cmd.script[j].verb # "rm -rf"

\* a mapping with both flags set is transferred as a directory
C36_Witness ==
    /\ call.op = "sync_file_mapping"
    /\ call.arg.mapping.is_directory
    /\ call.arg.mapping.is_pattern
    /\ call.ret.ok
    /\ Len(call.cmds) = 2
    /\ HasFlag(call.cmds[2].cmd, "-r")

(***************************************************************************)
(* C37: list_remote_dir returns an error only when the session has no      *)
(* descriptor or the remote shell cannot be launched.  When the remote     *)
(* command runs, also when it exits non-zero, the result is success with   *)
(* the non-empty lines of what was printed on standard output, which is    *)
(* nothing when the path is not a directory; the remote state is never     *)
(* modified.                                                               *)
(***************************************************************************)
C37_ListRemoteDirResults ==
    call.op = "list_remote_dir"
    => LET q == Deref(call.pre.remote, ShellExpand(ExpandRemoteHome(call.arg.remote)))
       IN /\ Len(call.cmds) <= 1
          /\ remote = call.pre.remote
          /\ ~call.ret.ok
               <=> \/ call.pre.conn = <<>>
                   \/ call.cmds # <<>> /\ call.cmds[1].out.k = "nolaunch"
          /\ call.ret.ok
               => /\ \A i \in DOMAIN call.ret.val :
                       /\ call.ret.val[i] # <<>>
                       /\ \A j \in DOMAIN call.ret.val[i] : call.ret.val[i][j] # "\n"
                  /\ (q \in DOMAIN call.pre.remote /\ call.pre.remote[q].t # "dir")
                       => call.ret.val = <<>>
                  /\ (/\ q \in DOMAIN call.pre.remote
                      /\ call.pre.remote[q].t = "dir"
                      /\ call.cmds[1].out.k = "ok")
                       => \A i \in DOMAIN call.ret.val :
                             call.pre.remote[q \o <<"/">> \o call.ret.val[i]].t # "none"

\* the list command exited non-zero after it had printed an entry
C37_Witness ==
    /\ call.op = "list_remote_dir"
    /\ call.cmds # <<>>
    /\ call.cmds[1].out.k = "exit"
    /\ call.ret.ok
    /\ call.ret.val # <<>>

(***************************************************************************)
(* C38: the expansion of the remote home shorthand rewrites only a leading *)
(* "~" of the remote path to the remote home variable; a "~" elsewhere in  *)
(* the path reaches the remote command unchanged, so every remote command  *)
(* of an operation works on the path the caller named.                     *)
(***************************************************************************)
\* the path with a leading ~ rewritten, and nothing else
ExpandLeadingHome(path) ==
    IF path # <<>> /\ Head(path) = "~" THEN <<"$HOME">> \o Tail(path) ELSE path

RemotePathOps ==
    {"sync_single_file", "sync_directory", "sync_pattern_files", "create_remote_symlink",
     "remove_remote_path", "list_remote_dir", "read_remote_file", "write_remote_file",
     "check_remote_symlink_exists"}

C38_OnlyLeadingTildeExpanded ==
    call.op \in RemotePathOps
    => \A i \in DOMAIN call.cmds :
          \A j \in DOMAIN call.cmds[i].cmd.script :
             call.cmds[i].cmd.script[j].path = ExpandLeadingHome(call.arg.remote)

(***************************************************************************)
(* C39: safe_compact follows the order export, close, delete the database  *)
(* directory, reopen, import, delete the export file, and never loses the  *)
(* only copy of the data: the database directory is deleted only after the *)
(* export succeeded, the export file is deleted only after the import      *)
(* succeeded, and after a failure at any step the database directory or    *)
(* the export file still holds the data.                                   *)
(***************************************************************************)
C39_CompactNeverLosesData ==
    db.pc # "idle"
    => /\ db.did = SubSeq(CompactSteps, 1, Len(db.did))
       /\ db.dir # db.data => (Len(db.did) >= 2 /\ db.did[1] = "export")
       /\ db.file # db.data
            => \/ db.did = <<>>
               \/ Len(db.did) = Len(CompactSteps) /\ db.did[7] = "import"
       /\ db.dir = db.data \/ db.file = db.data

\* the import failed on the emptied directory: the export file holds the data
C39_Witness ==
    /\ db.pc = "returned"
    /\ ~db.ret.ok
    /\ db.did = SubSeq(CompactSteps, 1, 6)
    /\ db.dir # db.data
    /\ db.file = db.data

====
